---- MODULE Spec2Model ----
(***************************************************************************)
(* Verification model of the document-extraction pipeline:                 *)
(*   - the LLM client (generate_conversation / call_bedrock),              *)
(*   - the image extractor (process_chunk / process_chunks /               *)
(*     combine_json_responses / prepare_and_store_response).               *)
(* Texts are sequences of string pieces; concatenation is \o.              *)
(***************************************************************************)
EXTENDS Integers, Sequences, FiniteSets, TLC

\* ------------------------------------------------------------------------
\* Bounds of the model
\* ------------------------------------------------------------------------

\* the jitter random.random() * 0.4 is sampled at JitterSteps + 1 points
JitterSteps == 2

\* largest number of chunks of a document
MaxChunks == 3

\* largest number of chunks of a document in the worker-pool specification
MaxPoolChunks == 11

\* largest number of pages of a document handed to the chunk generator
MaxPages == 25

\* largest chunk_size of a request
MaxChunkSize == 10

\* largest number of documents of a request
MaxDocs == 3

\* largest number of words of a document handed to the text extractor
MaxWords == 5

\* largest number of content blocks of a response
MaxBlocks == 3

VARIABLES
    \* ---- LLM client (one call of call_bedrock) ----
    llm_pc,         \* position inside call_bedrock / generate_conversation
    retry_count,    \* generate_conversation's retry_count
    converse_log,   \* outcome of every bedrock_client.converse call, in order
    delays,         \* every backoff_time slept, in order (unit: 1/(10*JitterSteps) s)
    response,       \* content blocks of the response generate_conversation holds
    exc,            \* the exception propagating out of generate_conversation
    cb_result,      \* what call_bedrock hands to its caller
    \* ---- image extractor (one invocation of lambda_handler) ----
    parallel_processing,  \* body["parallel_processing"]
    llm_stub,             \* per chunk of chunk_messages_list: what call_bedrock does for it
    pc,                   \* position of the handler's thread
    submitted,            \* number of futures created by executor.submit
    status,               \* per chunk: QUEUED, RUNNING, PARSED, MALFORMED, ERROR, DONE
    future,               \* per chunk: what process_chunk returned or raised
    all_responses,        \* process_chunks' all_responses
    all_raw_responses,    \* process_chunks' all_raw_responses
    out_of_order,         \* some chunk finished while an earlier chunk had not
    stored,               \* the object put to S3 by prepare_and_store_response
    \* ---- the other components, one frame each ----
    gen,      \* create_human_message_with_imgs_generator: its arguments and locals
    batch,    \* a client of the orchestration: request, execution, result
    trunc,    \* the text extractor up to truncate_document: arguments and locals
    store,    \* the extractors' result write: input key, extractor, bucket
    parse,    \* parse_bedrock_response: the response and what the call gives
    extract,  \* the text extractor from its prompt to its result write
    req,      \* generate_conversation: its arguments and the request it builds
    roundtrip,  \* parse_json_string applied to a serialised answer
    upload,   \* upload_all_files_async: its tasks and locals
    writers   \* the extractors of one batch writing their results

llm_vars == <<llm_pc, retry_count, converse_log, delays, response, exc, cb_result>>

chunk_vars == <<parallel_processing, llm_stub, pc, submitted, status, future,
                all_responses, all_raw_responses, out_of_order, stored>>

more_vars == <<extract, req, roundtrip, upload, writers>>

other_vars == <<gen, batch, trunc, store, parse, more_vars>>

vars == <<llm_pc, retry_count, converse_log, delays, response, exc, cb_result,
          parallel_processing, llm_stub, pc, submitted, status, future,
          all_responses, all_raw_responses, out_of_order, stored,
          gen, batch, trunc, store, parse,
          extract, req, roundtrip, upload, writers>>

\* ------------------------------------------------------------------------
\* Response parser: parse_json_string
\* A text is a sequence of pieces; a piece is a tag, a bracket, a literal,
\* a separator or a run of prose.
\* ------------------------------------------------------------------------

\* str.strip() removes leading and trailing whitespace
Whitespace == {" ", "\n", "\n\n"}

RECURSIVE LStrip(_)
LStrip(s) == IF s # << >> /\ s[1] \in Whitespace THEN LStrip(Tail(s)) ELSE s

RECURSIVE RStrip(_)
RStrip(s) ==
    IF s # << >> /\ s[Len(s)] \in Whitespace THEN RStrip(SubSeq(s, 1, Len(s) - 1)) ELSE s

Strip(s) == LStrip(RStrip(s))

Positions(s, piece) == {i \in 1..Len(s) : s[i] = piece}

Min(S) == CHOOSE x \in S : \A y \in S : x <= y

Max(S) == CHOOSE x \in S : \A y \in S : x >= y

\* text.split("<json>", 1)[1]: IndexError when the tag is absent
AfterFirst(s, tag) == SubSeq(s, Min(Positions(s, tag)) + 1, Len(s))

\* text.rsplit("</json>", 1)[0]: the whole text when the tag is absent
BeforeLast(s, tag) ==
    IF Positions(s, tag) = {} THEN s ELSE SubSeq(s, 1, Max(Positions(s, tag)) - 1)

\* try: text.split("<json>", 1)[1].rsplit("</json>", 1)[0].strip()
\* except Exception: text.strip()
ExtractJson(text) ==
    IF Positions(text, "<json>") = {}
      THEN Strip(text)
      ELSE Strip(BeforeLast(AfterFirst(text, "<json>"), "</json>"))

\* re.sub(r"\n\n+", ",", text): a run of blank lines is the piece "\n\n"
CollapseBlankLines(s) == [i \in 1..Len(s) |-> IF s[i] = "\n\n" THEN "," ELSE s[i]]

\* if not text.startswith("{") and not text.startswith("["): text = "{" + text
\* if not text.endswith("}") and not text.endswith("]"): text = text + "}"
WrapBraces(s) ==
    LET a == IF s # << >> /\ s[1] \in {"{", "["} THEN s ELSE << "{" >> \o s
    IN  IF a[Len(a)] \in {"}", "]"} THEN a ELSE a \o << "}" >>

\* text.replace(b + b, b): non-overlapping occurrences, left to right
RECURSIVE ReplaceDoubled(_, _)
ReplaceDoubled(s, b) ==
    IF Len(s) < 2 THEN s
    ELSE IF s[1] = b /\ s[2] = b
           THEN << b >> \o ReplaceDoubled(SubSeq(s, 3, Len(s)), b)
           ELSE << s[1] >> \o ReplaceDoubled(Tail(s), b)

\* lines 17-29 of parse_json_string: the text handed to ast.literal_eval
Normalise(text) ==
    ReplaceDoubled(ReplaceDoubled(WrapBraces(CollapseBlankLines(ExtractJson(text))), "}"), "{")

\* ---- JSON values ----
\* a value is a list of numbers (items), a number (items holds the one
\* number), a string or one of True, False, None (str), or a dict without a
\* dict inside (obj)
ListValue(items) ==
    [isList |-> TRUE, kind |-> "list", items |-> items, str |-> "", obj |-> << >>]

ScalarValue(n) ==
    [isList |-> FALSE, kind |-> "int", items |-> << n >>, str |-> "", obj |-> << >>]

StringValue(t) ==
    [isList |-> FALSE, kind |-> "str", items |-> << >>, str |-> t, obj |-> << >>]

NameValue(t) ==
    [isList |-> FALSE, kind |-> "name", items |-> << >>, str |-> t, obj |-> << >>]

DictValue(d) ==
    [isList |-> FALSE, kind |-> "dict", items |-> << >>, str |-> "", obj |-> d]

\* the empty dict {}
EmptyDict == [k \in {} |-> ScalarValue(0)]

\* a parsed reply: a dict (object) or a list (not an object)
DictResponse(d) == [type |-> "dict", dict |-> d, list |-> << >>]

ListResponse(l) == [type |-> "list", dict |-> EmptyDict, list |-> l]

\* ---- ast.literal_eval on the literals of the reply alphabet ----
NumberLiterals == {ToString(n) : n \in 0..9}

IntOf(piece) == CHOOSE n \in 0..9 : ToString(n) = piece

StringLiterals == {"'pages'", "'total'", "\"pages\"", "\"total\"", "\"paid\""}

StrOf(piece) ==
    IF piece \in {"'pages'", "\"pages\""} THEN "pages"
    ELSE IF piece \in {"'total'", "\"total\""} THEN "total"
    ELSE "paid"

\* the JSON names that are no Python literal: ast.literal_eval raises
\* ValueError (malformed node) on a Name
JsonNames == {"true", "false", "null"}

\* whitespace between the pieces of a literal is insignificant
Significant(s) == SelectSeq(s, LAMBDA p : p \notin Whitespace)

\* n, n, ..., n with an optional trailing comma
RECURSIVE IsNumberItems(_)
IsNumberItems(s) ==
    \/ s = << >>
    \/ /\ s[1] \in NumberLiterals
       /\ \/ Len(s) = 1
          \/ s[2] = "," /\ IsNumberItems(SubSeq(s, 3, Len(s)))

NumberItems(s) ==
    LET nums == SelectSeq(s, LAMBDA p : p \in NumberLiterals)
    IN  [i \in 1..Len(nums) |-> IntOf(nums[i])]

RECURSIVE EvalPairs(_, _)

\* the value that starts s: a number, a string, a list of numbers or a dict
\* without a dict inside; len is the number of pieces it takes
EvalValue(s) ==
    IF s[1] \in NumberLiterals
      THEN [raised |-> FALSE, value |-> ScalarValue(IntOf(s[1])), len |-> 1]
    ELSE IF s[1] \in StringLiterals
      THEN [raised |-> FALSE, value |-> StringValue(StrOf(s[1])), len |-> 1]
    ELSE IF s[1] \in JsonNames
      THEN [raised |-> TRUE, value |-> ScalarValue(0), len |-> 1]
    ELSE IF s[1] = "[" /\ \E c \in 2..Len(s) : s[c] = "]"
      THEN LET close == Min({c \in 2..Len(s) : s[c] = "]"})
               inner == SubSeq(s, 2, close - 1)
           IN  [raised |-> ~IsNumberItems(inner), value |-> ListValue(NumberItems(inner)),
                len |-> close]
    ELSE IF s[1] = "{" /\ \E c \in 2..Len(s) : s[c] = "}"
      THEN LET close == Min({c \in 2..Len(s) : s[c] = "}"})
               inner == EvalPairs(SubSeq(s, 2, close - 1), EmptyDict)
           IN  [raised |-> inner.raised, value |-> DictValue(inner.dict), len |-> close]
    ELSE [raised |-> TRUE, value |-> ScalarValue(0), len |-> 1]

\* key: value, key: value, ... with an optional trailing comma; a later
\* occurrence of a key overrides an earlier one
EvalPairs(s, acc) ==
    IF s = << >> THEN [raised |-> FALSE, dict |-> acc]
    ELSE IF Len(s) < 3 \/ s[1] \notin StringLiterals \/ s[2] # ":"
      THEN [raised |-> TRUE, dict |-> EmptyDict]
    ELSE LET v    == EvalValue(SubSeq(s, 3, Len(s)))
             last == 2 + v.len
             acc2 == [k \in DOMAIN acc \cup {StrOf(s[1])} |->
                        IF k = StrOf(s[1]) THEN v.value ELSE acc[k]]
         IN  IF v.raised THEN [raised |-> TRUE, dict |-> EmptyDict]
             ELSE IF Len(s) = last THEN [raised |-> FALSE, dict |-> acc2]
             ELSE IF s[last + 1] = "," THEN EvalPairs(SubSeq(s, last + 2, Len(s)), acc2)
             ELSE [raised |-> TRUE, dict |-> EmptyDict]

\* ast.literal_eval(text): the value, or raised for what is no literal
LiteralEval(text) ==
    LET s == Significant(text)
        inner == SubSeq(s, 2, Len(s) - 1)
    IN  IF Len(s) >= 2 /\ s[1] = "[" /\ s[Len(s)] = "]" /\ IsNumberItems(inner)
          THEN [raised |-> FALSE, value |-> ListResponse(NumberItems(inner))]
        ELSE IF Len(s) >= 2 /\ s[1] = "{" /\ s[Len(s)] = "}" /\ ~EvalPairs(inner, EmptyDict).raised
          THEN [raised |-> FALSE, value |-> DictResponse(EvalPairs(inner, EmptyDict).dict)]
        ELSE [raised |-> TRUE, value |-> DictResponse(EmptyDict)]

\* parse_json_string(text)
ParseJsonString(text) == LiteralEval(Normalise(text))

\* ------------------------------------------------------------------------
\* Merge of the per-chunk answers: combine_json_responses
\* ------------------------------------------------------------------------

\* d[k] = v on a dict
Put(d, k, v) == [x \in DOMAIN d \cup {k} |-> IF x = k THEN v ELSE d[x]]

\* the state of the loop: the accumulator combined_json, the responses list
\* (combined_json[key] = value stores the very list object of responses[j],
\* so a later extend/append through combined_json changes that response too),
\* and per key the response whose list object combined_json[key] is (0: none)
CombineStart(responses) ==
    [combined |-> EmptyDict, owner |-> EmptyDict, responses |-> responses]

\* a list object changed in place: seen through combined_json and through its owner
MutateInPlace(st, key, new) ==
    [combined |-> Put(st.combined, key, new),
     owner |-> st.owner,
     responses |->
        IF st.owner[key] = 0 THEN st.responses
        ELSE [st.responses EXCEPT ![st.owner[key]].dict = Put(@, key, new)]]

\* combined_json[key] = <a new object>
Rebind(st, key, new, who) ==
    [combined |-> Put(st.combined, key, new),
     owner |-> Put(st.owner, key, who),
     responses |-> st.responses]

\* variant: the scalar is put behind the list instead of in front of it
ScalarThenListAppended(acc, value) == ListValue(value.items \o acc.items)

\* combined_json[key] = [combined_json[key]] + value
ScalarThenList(acc, value) == ListValue(acc.items \o value.items)

\* the body of "for key, value in response.items()" for response j
CombineKey(st, j, key) ==
    LET value == st.responses[j].dict[key]
        acc   == st.combined[key]
    IN  IF key \notin DOMAIN st.combined
          THEN Rebind(st, key, value, IF value.isList THEN j ELSE 0)
        ELSE IF value.isList /\ acc.isList
          THEN MutateInPlace(st, key, ListValue(acc.items \o value.items))
        ELSE IF ~value.isList /\ ~acc.isList
          THEN Rebind(st, key, ListValue(<< acc.items[1], value.items[1] >>), 0)
        ELSE IF ~value.isList /\ acc.isList
          THEN MutateInPlace(st, key, ListValue(Append(acc.items, value.items[1])))
        ELSE Rebind(st, key, ScalarThenList(acc, value), 0)

RECURSIVE CombineKeys(_, _, _)
CombineKeys(st, j, keys) ==
    IF keys = {} THEN st
    ELSE LET key == CHOOSE k \in keys : TRUE
         IN  CombineKeys(CombineKey(st, j, key), j, keys \ {key})

\* if not isinstance(response, dict): continue
IsDict(r) == r.type = "dict"

RECURSIVE CombineFrom(_, _)
CombineFrom(st, j) ==
    IF j > Len(st.responses) THEN st
    ELSE IF ~IsDict(st.responses[j]) THEN CombineFrom(st, j + 1)
    ELSE CombineFrom(CombineKeys(st, j, DOMAIN st.responses[j].dict), j + 1)

\* combine_json_responses(responses): .combined is the returned dict,
\* .responses the list as the call leaves it
CombineJsonResponses(responses) == CombineFrom(CombineStart(responses), 1)

\* ------------------------------------------------------------------------
\* LLM client: generate_conversation and call_bedrock
\* ------------------------------------------------------------------------

\* max_retries = 5
max_retries == 5

\* the message list handed to call_bedrock
messages == << "user" >>

\* content blocks a provider message can carry: text-bearing or not
TextBlock(t) == [type |-> "text", text |-> t]

ReasoningBlock == [type |-> "reasoningContent", text |-> "-"]

\* the provider messages the stubbed provider may answer with
ProviderContents ==
    { << TextBlock("answer") >>,
      << TextBlock("answer"), TextBlock("more") >>,
      << ReasoningBlock, TextBlock("answer") >>,
      << ReasoningBlock, ReasoningBlock, TextBlock("answer") >>,
      << ReasoningBlock >>,
      << >> }

\* exceptions of the provider: ThrottlingException and ValidationException are
\* botocore ClientError subclasses, ReadTimeoutError is not
ProviderErrors == {"ThrottlingException", "ValidationException", "ReadTimeoutError"}

ConverseOutcomes ==
    [kind : {"ok"}, content : ProviderContents, error : {"-"}]
    \cup [kind : {"error"}, content : {<< >>}, error : ProviderErrors]

IsThrottling(o) == o.kind = "error" /\ o.error = "ThrottlingException"

IsNonThrottlingError(o) == o.kind = "error" /\ o.error # "ThrottlingException"

\* except ClientError as err: (call_bedrock)
IsClientError(e) == e \in {"ThrottlingException", "ValidationException"}

\* raise Exception(f"Failed after {max_retries} retries due to throttling")
PermanentError == "Failed after 5 retries due to throttling"

\* 0.8 + random.random() * 0.4, in units of 1/(10*JitterSteps)
Jitter(j) == 8 * JitterSteps + 4 * j

RECURSIVE Pow2(_)
Pow2(k) == IF k = 0 THEN 1 ELSE 2 * Pow2(k - 1)

\* variant: a linear backoff, 2 * retry_count instead of 2 ** retry_count
BackoffLinear(k, j) == (2 * k) * Jitter(j)

\* backoff_time = (2**retry_count) * (0.8 + random.random() * 0.4)
BackoffTime(k, j) == Pow2(k) * Jitter(j)

\* variant: the retry loop without its break
OnRetrySuccessNoBreak == "retry_loop"

\* break  # Break the retry loop on success
OnRetrySuccess == "gc_returned"

LLMInit ==
    /\ llm_pc = "first_call"
    /\ retry_count = 0
    /\ converse_log = << >>
    /\ delays = << >>
    /\ response = << >>
    /\ exc = "-"
    /\ cb_result = [kind |-> "-", text |-> "-", out_messages |-> << >>]

\* the first bedrock_client.converse call and its except clause
FirstCall(o) ==
    /\ llm_pc = "first_call"
    /\ converse_log' = Append(converse_log, o)
    /\ IF o.kind = "ok"
         THEN /\ llm_pc' = "gc_returned"
              /\ response' = o.content
              /\ UNCHANGED exc
         ELSE IF IsThrottling(o)
         THEN /\ llm_pc' = "retry_loop"
              /\ UNCHANGED <<response, exc>>
         ELSE /\ llm_pc' = "gc_raised"
              /\ exc' = o.error
              /\ UNCHANGED response
    /\ UNCHANGED <<retry_count, delays, cb_result>>
    /\ UNCHANGED <<chunk_vars, other_vars>>

\* while retry_count < max_retries: retry_count += 1; time.sleep(backoff_time)
Backoff(j) ==
    /\ llm_pc = "retry_loop"
    /\ retry_count < max_retries
    /\ retry_count' = retry_count + 1
    /\ delays' = Append(delays, BackoffTime(retry_count + 1, j))
    /\ llm_pc' = "retry_call"
    /\ UNCHANGED <<converse_log, response, exc, cb_result>>
    /\ UNCHANGED <<chunk_vars, other_vars>>

\* the converse call of one retry and its except clauses
RetryCall(o) ==
    /\ llm_pc = "retry_call"
    /\ converse_log' = Append(converse_log, o)
    /\ IF o.kind = "ok"
         THEN /\ llm_pc' = OnRetrySuccess
              /\ response' = o.content
              /\ UNCHANGED exc
         ELSE IF IsThrottling(o)
         THEN IF retry_count = max_retries
                THEN /\ llm_pc' = "gc_raised"
                     /\ exc' = PermanentError
                     /\ UNCHANGED response
                ELSE /\ llm_pc' = "retry_loop"
                     /\ UNCHANGED <<response, exc>>
         ELSE /\ llm_pc' = "gc_raised"
              /\ exc' = o.error
              /\ UNCHANGED response
    /\ UNCHANGED <<retry_count, delays, cb_result>>
    /\ UNCHANGED <<chunk_vars, other_vars>>

\* output_message["content"][0]["text"] if "text" in content[0]
\* else output_message["content"][1]["text"]; KeyError/IndexError -> "", []
SelectText(content) ==
    IF Len(content) = 0 THEN [found |-> FALSE, text |-> "-"]
    ELSE IF content[1].type = "text" THEN [found |-> TRUE, text |-> content[1].text]
    ELSE IF Len(content) >= 2 /\ content[2].type = "text"
           THEN [found |-> TRUE, text |-> content[2].text]
    ELSE [found |-> FALSE, text |-> "-"]

\* call_bedrock after generate_conversation has returned its response
CallBedrockReturn ==
    /\ llm_pc = "gc_returned"
    /\ llm_pc' = "cb_returned"
    /\ cb_result' =
         IF SelectText(response).found
           THEN [kind |-> "return", text |-> SelectText(response).text,
                 out_messages |-> Append(messages, "assistant")]
           ELSE [kind |-> "return", text |-> "", out_messages |-> << >>]
    /\ UNCHANGED <<retry_count, converse_log, delays, response, exc>>
    /\ UNCHANGED <<chunk_vars, other_vars>>

\* call_bedrock when generate_conversation raised: except ClientError -> "", []
CallBedrockExcept ==
    /\ llm_pc = "gc_raised"
    /\ IF IsClientError(exc)
         THEN /\ llm_pc' = "cb_returned"
              /\ cb_result' = [kind |-> "return", text |-> "", out_messages |-> << >>]
         ELSE /\ llm_pc' = "cb_raised"
              /\ cb_result' = [kind |-> "raise", text |-> exc, out_messages |-> << >>]
    /\ UNCHANGED <<retry_count, converse_log, delays, response, exc>>
    /\ UNCHANGED <<chunk_vars, other_vars>>


\* ------------------------------------------------------------------------
\* Image extractor: process_chunk, process_chunks, prepare_and_store_response
\* ------------------------------------------------------------------------

\* the replies the stubbed model gives for a chunk
ReplyTexts ==
    { << "<thinking>", "page one", "</thinking>",
         "<json>", "{", "'pages'", ":", "[", "1", "]", "}", "</json>" >>,
      << "<json>", "{", "'pages'", ":", "[", "2", "]", ",", "'total'", ":", "3", "}", "</json>" >>,
      << "<json>", "{", "'pages'", ":", "4", "}", "</json>" >>,
      << "<json>", "[", "5", "]", "</json>" >>,
      << "sorry" >>,
      << >> }

\* what call_bedrock does for one chunk: it returns a reply text, or it raises
StubOutcomes ==
    [kind : {"return"}, text : ReplyTexts, error : {"-"}]
    \cup [kind : {"raise"}, text : {<< >>}, error : {PermanentError}]

\* the stub of the worker-pool specification
PoolStubOutcomes ==
    { [kind |-> "return", text |-> << "<json>", "{", "'pages'", ":", "4", "}", "</json>" >>,
       error |-> "-"] }

NoResult == [raised |-> FALSE, state |-> "-", response_json |-> DictResponse(EmptyDict),
             response_text |-> << >>, error |-> "-"]

\* process_chunk(index, chunk_messages, ...): call_bedrock, then
\* try: return parse_json_string(response_text), response_text
\* except Exception: return {}, response_text
ProcessChunk(stub) ==
    IF stub.kind = "raise"
      THEN [raised |-> TRUE, state |-> "ERROR", response_json |-> DictResponse(EmptyDict),
            response_text |-> << >>, error |-> stub.error]
    ELSE IF ParseJsonString(stub.text).raised
      THEN [raised |-> FALSE, state |-> "MALFORMED", response_json |-> DictResponse(EmptyDict),
            response_text |-> stub.text, error |-> "-"]
    ELSE [raised |-> FALSE, state |-> "PARSED",
          response_json |-> ParseJsonString(stub.text).value,
          response_text |-> stub.text, error |-> "-"]

NChunks == Len(llm_stub)

Running == {i \in 1..NChunks : status[i] = "RUNNING"}

Finished == {"PARSED", "MALFORMED", "ERROR"}

\* if parallel_processing and len(chunk_messages_list) > 1:
UseExecutor == parallel_processing /\ NChunks > 1

\* variant: one worker per chunk, without the cap
MaxWorkersUncapped(n) == n

\* ThreadPoolExecutor(max_workers=min(10, len(chunk_messages_list)))
MaxWorkers(n) == Min({10, n})

\* variant: the slot of a failed chunk is a dict with a key
ErrorSlotKeyed(msg) ==
    [json |-> DictResponse(Put(EmptyDict, "pages", ScalarValue(0))),
     text |-> << "Error: ", msg >>]

\* except Exception as e: all_responses.append({});
\*                        all_raw_responses.append(f"Error: {str(e)}")
ErrorSlot(msg) == [json |-> DictResponse(EmptyDict), text |-> << "Error: ", msg >>]

\* variant: results are taken in completion order (as_completed)
CollectAsCompleted == {i \in 1..NChunks : status[i] \in Finished}

\* for i, future in enumerate(futures): future.result()
CollectNext == {Len(all_responses) + 1}

ChunkInit(maxChunks, stubs) ==
    /\ parallel_processing \in BOOLEAN
    /\ llm_stub \in UNION {[1..n -> stubs] : n \in 1..maxChunks}
    /\ pc = "process_chunks"
    /\ submitted = 0
    /\ status = [i \in DOMAIN llm_stub |-> "QUEUED"]
    /\ future = [i \in DOMAIN llm_stub |-> NoResult]
    /\ all_responses = << >>
    /\ all_raw_responses = << >>
    /\ out_of_order = FALSE
    /\ stored = << >>

\* process_chunks is entered: the branch of line 199
ProcessChunksEnter ==
    /\ pc = "process_chunks"
    /\ pc' = IF UseExecutor THEN "submit" ELSE "sequential"
    /\ UNCHANGED <<parallel_processing, llm_stub, submitted, status, future,
                   all_responses, all_raw_responses, out_of_order, stored>>
    /\ UNCHANGED <<llm_vars, other_vars>>

\* executor.submit(process_chunk, index=i, ...) for the next chunk
Submit ==
    /\ pc = "submit"
    /\ submitted < NChunks
    /\ submitted' = submitted + 1
    /\ pc' = IF submitted + 1 = NChunks THEN "collect" ELSE "submit"
    /\ UNCHANGED <<parallel_processing, llm_stub, status, future,
                   all_responses, all_raw_responses, out_of_order, stored>>
    /\ UNCHANGED <<llm_vars, other_vars>>

\* a worker thread of the pool takes the oldest submitted work item
WorkerStart(i) ==
    /\ pc \in {"submit", "collect"}
    /\ i <= submitted
    /\ status[i] = "QUEUED"
    /\ \A j \in 1..(i - 1) : status[j] # "QUEUED"
    /\ Cardinality(Running) < MaxWorkers(NChunks)
    /\ status' = [status EXCEPT ![i] = "RUNNING"]
    /\ UNCHANGED <<parallel_processing, llm_stub, pc, submitted, future,
                   all_responses, all_raw_responses, out_of_order, stored>>
    /\ UNCHANGED <<llm_vars, other_vars>>

\* process_chunk of a worker returns or raises: the future is resolved
WorkerFinish(i) ==
    /\ pc \in {"submit", "collect"}
    /\ status[i] = "RUNNING"
    /\ future' = [future EXCEPT ![i] = ProcessChunk(llm_stub[i])]
    /\ status' = [status EXCEPT ![i] = ProcessChunk(llm_stub[i]).state]
    /\ out_of_order' = (out_of_order \/ \E j \in 1..(i - 1) : status[j] \in {"QUEUED", "RUNNING"})
    /\ UNCHANGED <<parallel_processing, llm_stub, pc, submitted,
                   all_responses, all_raw_responses, stored>>
    /\ UNCHANGED <<llm_vars, other_vars>>

\* one round of the collecting loop: future.result(), then the appends of the
\* try or of the except branch; after the last round the executor is left
\* and process_chunks returns
Collect(i) ==
    /\ pc = "collect"
    /\ i \in CollectNext
    /\ i <= NChunks
    /\ status[i] \in Finished
    /\ IF future[i].raised
         THEN /\ all_responses' = Append(all_responses, ErrorSlot(future[i].error).json)
              /\ all_raw_responses' = Append(all_raw_responses, ErrorSlot(future[i].error).text)
         ELSE /\ all_responses' = Append(all_responses, future[i].response_json)
              /\ all_raw_responses' = Append(all_raw_responses, future[i].response_text)
    /\ status' = [status EXCEPT ![i] = "DONE"]
    /\ pc' = IF Len(all_responses) + 1 = NChunks THEN "returned" ELSE "collect"
    /\ UNCHANGED <<parallel_processing, llm_stub, submitted, future, out_of_order, stored>>
    /\ UNCHANGED <<llm_vars, other_vars>>

\* sequential branch: process_chunk is called for the next chunk
SeqStart ==
    /\ pc = "sequential"
    /\ Len(all_responses) < NChunks
    /\ status[Len(all_responses) + 1] = "QUEUED"
    /\ status' = [status EXCEPT ![Len(all_responses) + 1] = "RUNNING"]
    /\ UNCHANGED <<parallel_processing, llm_stub, pc, submitted, future,
                   all_responses, all_raw_responses, out_of_order, stored>>
    /\ UNCHANGED <<llm_vars, other_vars>>

\* sequential branch: process_chunk returns, or raises; nothing catches the
\* exception, which leaves process_chunks and lambda_handler
SeqFinish ==
    /\ pc = "sequential"
    /\ Len(all_responses) < NChunks
    /\ status[Len(all_responses) + 1] = "RUNNING"
    /\ LET i == Len(all_responses) + 1
           r == ProcessChunk(llm_stub[i])
       IN  /\ future' = [future EXCEPT ![i] = r]
           /\ status' = [status EXCEPT ![i] = r.state]
           /\ pc' = IF r.raised THEN "raised" ELSE "sequential"
    /\ UNCHANGED <<parallel_processing, llm_stub, submitted,
                   all_responses, all_raw_responses, out_of_order, stored>>
    /\ UNCHANGED <<llm_vars, other_vars>>

\* sequential branch: all_responses.append(response_json);
\* all_raw_responses.append(response_text); after the last chunk, return
SeqAppend ==
    /\ pc = "sequential"
    /\ Len(all_responses) < NChunks
    /\ status[Len(all_responses) + 1] \in {"PARSED", "MALFORMED"}
    /\ LET i == Len(all_responses) + 1
       IN  /\ all_responses' = Append(all_responses, future[i].response_json)
           /\ all_raw_responses' = Append(all_raw_responses, future[i].response_text)
           /\ status' = [status EXCEPT ![i] = "DONE"]
           /\ pc' = IF i = NChunks THEN "returned" ELSE "sequential"
    /\ UNCHANGED <<parallel_processing, llm_stub, submitted, future, out_of_order, stored>>
    /\ UNCHANGED <<llm_vars, other_vars>>

\* body["file_name"] and PREFIX_ATTRIBUTES
file_name == << "originals", "/", "scan", ".pdf" >>

PREFIX_ATTRIBUTES == << "attributes" >>

\* f"{prefix}/{file_name.split('/', 1)[-1].removesuffix('.txt')}.json"
OutputKey(prefix, name) ==
    LET rest == IF Positions(name, "/") = {} THEN name ELSE AfterFirst(name, "/")
        stem == IF rest # << >> /\ rest[Len(rest)] = ".txt"
                  THEN SubSeq(rest, 1, Len(rest) - 1) ELSE rest
    IN  prefix \o << "/" >> \o stem \o << ".json" >>

\* variant: the header carries the 0-based index
ChunkHeaderZeroBased(i) == << "CHUNK ", ToString(i - 1), ":\n" >>

\* f"CHUNK {i + 1}:\n{resp}" for the i-th (1-based here) raw response
ChunkHeader(i) == << "CHUNK ", ToString(i), ":\n" >>

\* "\n\n".join([f"CHUNK {i + 1}:\n{resp}" for i, resp in enumerate(all_raw_responses)])
RECURSIVE JoinRaw(_, _)
JoinRaw(raws, i) ==
    IF i > Len(raws) THEN << >>
    ELSE (IF i > 1 THEN << "\n\n" >> ELSE << >>) \o ChunkHeader(i) \o raws[i] \o JoinRaw(raws, i + 1)

\* prepare_and_store_response: combine, json.dumps, s3_client.put_object
PrepareAndStoreResponse ==
    /\ pc = "returned"
    /\ LET multi    == Len(all_responses) > 1
           merged   == CombineJsonResponses(all_responses)
           combined == IF multi THEN DictResponse(merged.combined)
                       ELSE IF all_responses # << >> THEN all_responses[1]
                       ELSE DictResponse(EmptyDict)
           raw      == IF multi THEN JoinRaw(all_raw_responses, 1)
                       ELSE IF all_raw_responses # << >> THEN all_raw_responses[1]
                       ELSE << >>
       IN  /\ stored' = Append(stored,
                 [Key |-> OutputKey(PREFIX_ATTRIBUTES, file_name),
                  Body |-> [answer |-> combined,
                            raw_answer |-> raw,
                            file_key |-> file_name,
                            original_file_name |-> file_name,
                            chunks_processed |-> Len(all_responses)]])
           /\ all_responses' = IF multi THEN merged.responses ELSE all_responses
    /\ pc' = "stored"
    /\ UNCHANGED <<parallel_processing, llm_stub, submitted, status, future,
                   all_raw_responses, out_of_order>>
    /\ UNCHANGED <<llm_vars, other_vars>>

ChunkNext ==
    \/ ProcessChunksEnter
    \/ Submit
    \/ \E i \in 1..NChunks : WorkerStart(i)
    \/ \E i \in 1..NChunks : WorkerFinish(i)
    \/ \E i \in 1..NChunks : Collect(i)
    \/ SeqStart
    \/ SeqFinish
    \/ SeqAppend
    \/ PrepareAndStoreResponse

\* the extractor is not running (specification of the LLM client alone)
ChunkIdle ==
    /\ parallel_processing = FALSE
    /\ llm_stub = << >>
    /\ pc = "idle"
    /\ submitted = 0
    /\ status = << >>
    /\ future = << >>
    /\ all_responses = << >>
    /\ all_raw_responses = << >>
    /\ out_of_order = FALSE
    /\ stored = << >>

\* the LLM client is not running (specifications of the extractor alone)
LLMIdle ==
    /\ llm_pc = "idle"
    /\ retry_count = 0
    /\ converse_log = << >>
    /\ delays = << >>
    /\ response = << >>
    /\ exc = "-"
    /\ cb_result = [kind |-> "-", text |-> "-", out_messages |-> << >>]

LLMNext ==
    \/ \E o \in ConverseOutcomes : FirstCall(o)
    \/ \E j \in 0..JitterSteps : Backoff(j)
    \/ \E o \in ConverseOutcomes : RetryCall(o)
    \/ CallBedrockReturn
    \/ CallBedrockExcept

\* ------------------------------------------------------------------------
\* Chunk generator: create_human_message_with_imgs_generator
\* ------------------------------------------------------------------------

\* the filled prompt template handed to the generator as text
filled_template == << "Extract the attributes." >>

\* start_page: int = 0; lambda_handler never passes it
start_page == 0

\* the files lambda_handler can hand over: none (no file_name), a PDF of
\* n >= 0 page images, one image, or a file of another format
GenFiles ==
    {[kind |-> "none", pages |-> 0]}
    \cup {[kind |-> "pdf", pages |-> n] : n \in 0..MaxPages}
    \cup {[kind |-> k, pages |-> 1] : k \in {"png", "jpg", "docx"}}

\* format = "jpeg" for a PDF; "png" if file.lower().endswith(".png") else "jpeg"
ImageFormat(kind) == IF kind = "png" THEN "png" ELSE "jpeg"

\* get_base64_encoded_images_from_pdf(file) / [binary_data]: the image of
\* page p is identified by p
LoadImages(file) == [p \in 1..file.pages |-> p]

\* lst[a:] for a >= 0
DropFirst(lst, a) == SubSeq(lst, a + 1, Len(lst))

\* variant: the slice runs one element too far
ChunkSliceOverlap(lst, i, n) == SubSeq(lst, i + 1, Min({i + n + 1, Len(lst)}))

\* bytes_strs[i : i + max_pages]
ChunkSlice(lst, i, n) == SubSeq(lst, i + 1, Min({i + n, Len(lst)}))

\* variant: the first page of the range is 0-based
PageRangeZeroBased(i, n) ==
    << "Processing pages ", ToString(start_page + i), ":", ToString(start_page + i + n) >>

\* f"Processing pages {start_page + i + 1}:{start_page + i + len(chunk)}"
PageRange(i, n) ==
    << "Processing pages ", ToString(start_page + i + 1), ":", ToString(start_page + i + n) >>

\* chunk_text: f"{page_range}. {text}" if len(bytes_strs) > max_pages else text
ChunkText(text, total, max, i, n) ==
    IF total > max THEN PageRange(i, n) \o << ". " >> \o text ELSE text

\* {"role": "user", "content": [<image blocks>, {"text": chunk_text}]}
HumanMessage(format, images, text) ==
    [role |-> "user",
     images |-> [k \in 1..Len(images) |-> [format |-> format, bytes |-> images[k]]],
     text |-> text]

GenInit ==
    gen \in {[pc |-> "start", file |-> f, max_pages |-> m, bytes_strs |-> << >>,
              i |-> 0, yielded |-> << >>, error |-> "-"] :
                f \in GenFiles, m \in 1..MaxChunkSize}

\* the generator runs up to its loop: "if not file", the loading of the
\* images, the two ValueErrors and the skip to start_page
GenStart ==
    /\ gen.pc = "start"
    /\ gen' =
         IF gen.file.kind = "none"
           THEN [gen EXCEPT !.pc = "done",
                            !.yielded = << HumanMessage("-", << >>, filled_template) >>]
         ELSE IF gen.file.kind \notin {"pdf", "png", "jpg"}
           THEN [gen EXCEPT !.pc = "raised", !.error = "Unsupported file format"]
         ELSE IF LoadImages(gen.file) = << >>
           THEN [gen EXCEPT !.pc = "raised", !.error = "No images found in the file."]
         ELSE [gen EXCEPT !.pc = "loop",
                          !.bytes_strs = DropFirst(LoadImages(gen.file), start_page)]
    /\ UNCHANGED <<llm_vars, chunk_vars, batch, trunc, store, parse, more_vars>>

\* one round of "for i in range(0, len(bytes_strs), max_pages)": a chunk is yielded
GenYield ==
    /\ gen.pc = "loop"
    /\ gen.i < Len(gen.bytes_strs)
    /\ LET chunk == ChunkSlice(gen.bytes_strs, gen.i, gen.max_pages)
           text  == ChunkText(filled_template, Len(gen.bytes_strs), gen.max_pages,
                              gen.i, Len(chunk))
       IN  gen' = [gen EXCEPT
                     !.yielded = Append(@, HumanMessage(ImageFormat(gen.file.kind), chunk, text)),
                     !.i = @ + gen.max_pages]
    /\ UNCHANGED <<llm_vars, chunk_vars, batch, trunc, store, parse, more_vars>>

\* the range is exhausted: the generator returns
GenReturn ==
    /\ gen.pc = "loop"
    /\ gen.i >= Len(gen.bytes_strs)
    /\ gen' = [gen EXCEPT !.pc = "done"]
    /\ UNCHANGED <<llm_vars, chunk_vars, batch, trunc, store, parse, more_vars>>

GenNext ==
    \/ GenStart
    \/ GenYield
    \/ GenReturn

\* ------------------------------------------------------------------------
\* Clients of the orchestration: the MCP tool extract_document_attributes
\* (process_document_paths, run_idp_bedrock_api) and the UI's
\* invoke_step_function
\* ------------------------------------------------------------------------

\* BUCKET_NAME and a bucket of somebody else
BUCKET_NAME == "idp-bucket"

OtherBucket == "external-bucket"

\* a document reference of a request: an S3 key of our bucket, an S3 URI
\* (of our bucket or of another one) or a presigned URL
DocRefs ==
    [kind : {"key", "s3_uri", "url"}, bucket : {BUCKET_NAME}, stem : {"inv", "memo"}, ext : {".pdf"}]
    \cup [kind : {"s3_uri"}, bucket : {OtherBucket}, stem : {"inv", "memo"}, ext : {".pdf"}]

\* str(uuid.uuid4())[:8]
UniqueIds == {"1f", "9c"}

\* the S3 key a reference names: originals/<stem><ext>
SourceKey(ref) == << "originals/", ref.stem, ref.ext >>

\* f"uploaded/{file_path.stem}_{unique_id}{file_extension}"
UploadedKey(ref, uid) == << "uploaded/", ref.stem, "_", uid, ref.ext >>

\* one document path resolved: download_from_presigned_url, process_s3_uri
\* (a URI of our bucket gives its key as it is), or the path itself
ResolveKey(ref, uid) ==
    IF ref.kind = "url" THEN UploadedKey(ref, uid)
    ELSE IF ref.kind = "s3_uri"
      THEN IF ref.bucket = BUCKET_NAME THEN SourceKey(ref) ELSE UploadedKey(ref, uid)
    ELSE SourceKey(ref)

\* the download or the copy of a reference can fail; a key cannot
CanFail(ref) == ref.kind = "url" \/ (ref.kind = "s3_uri" /\ ref.bucket # BUCKET_NAME)

\* variant: the new element is put in front
AppendedInFront(lst, x) == << x >> \o lst

\* lst.append(x)
Appended(lst, x) == Append(lst, x)

\* the requests: the MCP tool takes references, the UI hands over keys
BatchRequests ==
    {[client |-> "mcp", documents |-> d] : d \in UNION {[1..n -> DocRefs] : n \in 1..MaxDocs}}
    \cup {[client |-> "ui", documents |-> d] :
             d \in UNION {[1..n -> {r \in DocRefs : r.kind = "key"}] : n \in 1..MaxDocs}}

BatchInit ==
    batch \in {[pc |-> IF r.client = "mcp" THEN "resolve" ELSE "start",
                client |-> r.client, documents |-> r.documents,
                processed_documents |-> IF r.client = "mcp" THEN << >>
                                        ELSE [i \in DOMAIN r.documents |-> SourceKey(r.documents[i])],
                status |-> "-", outputs |-> << >>, results |-> << >>,
                error |-> "-", tool_response |-> [success |-> FALSE, results |-> << >>]] :
                  r \in BatchRequests}

\* process_document_paths: one round of "for doc_path in documents"; an
\* exception of the download or of the copy leaves the function
ResolveNext(uid, fails) ==
    /\ batch.pc = "resolve"
    /\ Len(batch.processed_documents) < Len(batch.documents)
    /\ LET ref == batch.documents[Len(batch.processed_documents) + 1]
       IN  /\ fails => CanFail(ref)
           /\ ~CanFail(ref) => uid = "1f"
           /\ batch' =
                IF fails
                  THEN [batch EXCEPT !.pc = "raised", !.error = "Failed to process document path"]
                  ELSE [batch EXCEPT !.processed_documents = Appended(@, ResolveKey(ref, uid))]
    /\ UNCHANGED <<llm_vars, chunk_vars, gen, trunc, store, parse, more_vars>>

\* process_document_paths returns processed_documents
ResolveReturn ==
    /\ batch.pc = "resolve"
    /\ Len(batch.processed_documents) = Len(batch.documents)
    /\ batch' = [batch EXCEPT !.pc = "start"]
    /\ UNCHANGED <<llm_vars, chunk_vars, gen, trunc, store, parse, more_vars>>

\* client.start_execution(stateMachineArn=..., input=event)
StartExecution ==
    /\ batch.pc = "start"
    /\ batch' = [batch EXCEPT !.pc = "sleep", !.status = "RUNNING"]
    /\ UNCHANGED <<llm_vars, chunk_vars, gen, trunc, store, parse, more_vars>>

\* the per-document output of the state machine (section 4.8: an exception
\* of a document is caught at its boundary and becomes an error output; the
\* outputs keep the order of the documents)
DocumentOutput(key, outcome) ==
    IF outcome = "ok"
      THEN [kind |-> "llm_answer", file_key |-> key, original_file_name |-> key,
            answer |-> << "answer for " >> \o key, error |-> "-"]
      ELSE [kind |-> "error", file_key |-> << >>, original_file_name |-> << >>,
            answer |-> << >>, error |-> "Lambda.Exception"]

\* the statuses of an execution that has ended
TerminalStatuses == {"SUCCEEDED", "FAILED", "TIMED_OUT", "ABORTED"}

\* the execution ends: SUCCEEDED with one output per document, or with
\* another terminal status and no output
ExecutionEnds(ended, outcomes) ==
    /\ batch.pc \in {"sleep", "poll"}
    /\ batch.status = "RUNNING"
    /\ DOMAIN outcomes = DOMAIN batch.processed_documents
    /\ batch' =
         IF ended # "SUCCEEDED" THEN [batch EXCEPT !.status = ended]
         ELSE [batch EXCEPT
                 !.status = "SUCCEEDED",
                 !.outputs = [i \in DOMAIN outcomes |->
                                 DocumentOutput(batch.processed_documents[i], outcomes[i])]]
    /\ UNCHANGED <<llm_vars, chunk_vars, gen, trunc, store, parse, more_vars>>

\* time.sleep(1) at the head of the polling loop
Sleep ==
    /\ batch.pc = "sleep"
    /\ batch' = [batch EXCEPT !.pc = "poll"]
    /\ UNCHANGED <<llm_vars, chunk_vars, gen, trunc, store, parse, more_vars>>

\* the two tests on the status of one round of the polling loop: FAILED
\* raises, SUCCEEDED goes on to json.loads(response["output"]), any other
\* status falls through to the next round of "while True"
AfterDescribe(execution_status) ==
    IF execution_status = "FAILED" THEN "raised"
    ELSE IF execution_status = "SUCCEEDED" THEN "collect"
    ELSE "sleep"

\* describe_execution and the tests on its status
DescribeExecution ==
    /\ batch.pc = "poll"
    /\ batch' =
         IF AfterDescribe(batch.status) = "raised"
           THEN [batch EXCEPT !.pc = AfterDescribe(batch.status),
                              !.error = "Step Function execution failed"]
           ELSE [batch EXCEPT !.pc = AfterDescribe(batch.status)]
    /\ UNCHANGED <<llm_vars, chunk_vars, gen, trunc, store, parse, more_vars>>

\* file_name.split("/", 1)[-1] of a key whose first piece is its prefix
AfterPrefix(key) == Tail(key)

\* one round of "for output in outputs":
\* run_idp_bedrock_api reads output["llm_answer"] (KeyError when absent);
\* invoke_step_function raises for an output with "error" or without
\* "llm_answer", else appends to st.session_state
CollectOutput ==
    /\ batch.pc = "collect"
    /\ Len(batch.results) < Len(batch.outputs)
    /\ LET output == batch.outputs[Len(batch.results) + 1]
       IN  batch' =
             IF batch.client = "mcp"
               THEN IF output.kind = "llm_answer"
                      THEN [batch EXCEPT !.results =
                              Appended(@, [file_key |-> output.file_key,
                                           attributes |-> output.answer])]
                      ELSE [batch EXCEPT !.pc = "raised", !.error = "KeyError: 'llm_answer'"]
             ELSE IF output.kind = "error"
               THEN [batch EXCEPT !.pc = "raised", !.error = "Error in processing"]
             ELSE IF output.kind # "llm_answer"
               THEN [batch EXCEPT !.pc = "raised", !.error = "No LLM answer found in the output"]
             ELSE [batch EXCEPT !.results =
                     Appended(@, [file_key |-> AfterPrefix(output.original_file_name),
                                  attributes |-> output.answer])]
    /\ UNCHANGED <<llm_vars, chunk_vars, gen, trunc, store, parse, more_vars>>

\* the loop over the outputs is through: return results / break
CollectReturn ==
    /\ batch.pc = "collect"
    /\ Len(batch.results) = Len(batch.outputs)
    /\ batch' = [batch EXCEPT !.pc = "returned"]
    /\ UNCHANGED <<llm_vars, chunk_vars, gen, trunc, store, parse, more_vars>>

\* what the caller gets: extract_document_attributes returns success and the
\* results, or success False for any exception; invoke_step_function returns,
\* or re-raises as "Error in step function execution"
ClientEnd ==
    /\ batch.pc \in {"returned", "raised"}
    /\ batch' =
         IF batch.client = "mcp"
           THEN [batch EXCEPT
                   !.pc = "done",
                   !.tool_response =
                      IF batch.pc = "returned"
                        THEN [success |-> TRUE, results |-> batch.results]
                        ELSE [success |-> FALSE, results |-> << >>]]
           ELSE [batch EXCEPT !.pc = "done"]
    /\ UNCHANGED <<llm_vars, chunk_vars, gen, trunc, store, parse, more_vars>>

BatchNext ==
    \/ \E uid \in UniqueIds, fails \in BOOLEAN : ResolveNext(uid, fails)
    \/ ResolveReturn
    \/ StartExecution
    \/ \E ended \in TerminalStatuses,
          outcomes \in UNION {[1..n -> {"ok", "error"}] : n \in 1..MaxDocs} :
          ExecutionEnds(ended, outcomes)
    \/ Sleep
    \/ DescribeExecution
    \/ CollectOutput
    \/ CollectReturn
    \/ ClientEnd

\* ------------------------------------------------------------------------
\* Text extractor: token counts and truncate_document
\* ------------------------------------------------------------------------

\* the words of a document: document.split(" ") gives these back, an empty
\* word standing for two spaces in a row or for the empty document
Words == {"", "sit", "paragraph"}

\* len() of a piece of text
CharLen(piece) ==
    IF piece = "" THEN 0
    ELSE IF piece = " " THEN 1
    ELSE IF piece = "sit" THEN 3
    ELSE IF piece = "\n...\n" THEN 5
    ELSE 9

RECURSIVE TextLen(_)
TextLen(text) == IF text = << >> THEN 0 ELSE CharLen(Head(text)) + TextLen(Tail(text))

\* " ".join(words)
RECURSIVE JoinSpaces(_)
JoinSpaces(words) ==
    IF words = << >> THEN << >>
    ELSE IF Len(words) = 1 THEN << words[1] >>
    ELSE << words[1], " " >> \o JoinSpaces(Tail(words))

\* token_count_tokenizer: AmazonBedrockTokenizer.count_tokens, one token for
\* every 4 characters, rounded up
CountTokensOfLen(chars) == (chars + 3) \div 4

TokenCountTokenizer(text) == CountTokensOfLen(TextLen(text))

\* lst[:e] and lst[s:] of Python: a negative e counts from the end
SliceTo(lst, e) ==
    IF e >= 0 THEN SubSeq(lst, 1, Min({e, Len(lst)}))
    ELSE SubSeq(lst, 1, Max({Len(lst) + e, 0}))

SliceFrom(lst, b) == SubSeq(lst, Min({b, Len(lst)}) + 1, Len(lst))

\* multipliers: start, end, step = 1.0, 5.0, 0.1 gives 41 floats, number k
\* (from 0) being 1 + k/10 up to the rounding of the repeated "start += step"
NumMultipliers == 41

\* int(split_parameter * multiplier) for multiplier number k: the floats of
\* k = 39 and k = 40 lie just under 4.9 and 5.0, so a product that would be
\* a whole number is truncated to the number below it
CutWords(sp, k) ==
    LET exact == (sp * (10 + k)) \div 10
    IN  IF sp > 0 /\ (k = 40 \/ (k = 39 /\ sp % 10 = 0)) THEN exact - 1 ELSE exact

\* (token_count_total - max_token_model) // 2 if max_token_model < token_count_total else 0
SplitParameter(total, max) == IF max < total THEN (total - max) \div 2 ELSE 0

\* " ".join(doc_words[:mid - cut]) + "\n...\n" + " ".join(doc_words[mid + cut:])
TruncatedDoc(doc_words, mid, cut) ==
    JoinSpaces(SliceTo(doc_words, mid - cut))
    \o << "\n...\n" >>
    \o JoinSpaces(SliceFrom(doc_words, mid + cut))

\* the (scaled) input limits get_max_input_token can give; the handler
\* passes max_token_model * 0.75
MaxInputTokens == {4, 8, 12}

\* characters of the filled template besides the document
PromptChars == {0, 8}

TruncInit ==
    trunc \in {[pc |-> "count", doc_words |-> w, prompt_chars |-> c, max_input_tokens |-> t,
                token_count_total |-> 0, num_token_prompt |-> 0, max_token_model |-> 0,
                split_parameter |-> 0, mid_point |-> 0, k |-> 0,
                truncated_doc |-> << >>, document |-> JoinSpaces(w)] :
                  w \in UNION {[1..n -> Words] : n \in 1..MaxWords},
                  c \in PromptChars, t \in MaxInputTokens}

\* lambda_handler counts the tokens and calls truncate_document, which runs
\* up to its loop
TruncCall ==
    /\ trunc.pc = "count"
    /\ LET doc   == TokenCountTokenizer(trunc.document)
           total == CountTokensOfLen(trunc.prompt_chars + TextLen(trunc.document))
           max   == (trunc.max_input_tokens * 3) \div 4
       IN  trunc' = [trunc EXCEPT
                       !.pc = "loop",
                       !.token_count_total = total,
                       !.num_token_prompt = total - doc,
                       !.max_token_model = max,
                       !.split_parameter = SplitParameter(total, max),
                       !.mid_point = Len(trunc.doc_words) \div 2]
    /\ UNCHANGED <<llm_vars, chunk_vars, gen, batch, store, parse, more_vars>>

\* one round of "for multiplier in multipliers": the cut, the count, and
\* the break when the document fits
TruncTry ==
    /\ trunc.pc = "loop"
    /\ trunc.k < NumMultipliers
    /\ LET doc == TruncatedDoc(trunc.doc_words, trunc.mid_point,
                               CutWords(trunc.split_parameter, trunc.k))
       IN  trunc' =
             IF TokenCountTokenizer(doc) < trunc.max_token_model - trunc.num_token_prompt
               THEN [trunc EXCEPT !.truncated_doc = doc, !.pc = "return"]
               ELSE [trunc EXCEPT !.truncated_doc = doc, !.k = @ + 1,
                                  !.pc = IF trunc.k + 1 = NumMultipliers THEN "return" ELSE "loop"]
    /\ UNCHANGED <<llm_vars, chunk_vars, gen, batch, store, parse, more_vars>>

\* return truncated_doc; the handler puts it into the prompt as the document
TruncReturn ==
    /\ trunc.pc = "return"
    /\ trunc' = [trunc EXCEPT !.pc = "done", !.document = trunc.truncated_doc]
    /\ UNCHANGED <<llm_vars, chunk_vars, gen, batch, store, parse, more_vars>>

TruncNext ==
    \/ TruncCall
    \/ TruncTry
    \/ TruncReturn

\* ------------------------------------------------------------------------
\* The result write of the three extractors (text, image, managed IDP)
\* ------------------------------------------------------------------------

\* extensions of a key: the piece carries its dot
Extensions == {".pdf", ".txt", ".png"}

\* the text behind the dot of an extension
ExtensionName(piece) ==
    IF piece = ".pdf" THEN "pdf" ELSE IF piece = ".txt" THEN "txt" ELSE "png"

\* the input keys of a document: any number of leading folders, a name, and
\* an extension or none
InputKeys ==
    {folders \o << name >> \o ext :
        folders \in {<< >>, << "originals", "/" >>, << "processed", "/" >>,
                     << "originals", "/", "2024", "/" >>},
        name \in {"scan", "memo"},
        ext \in {<< >>} \cup {<< e >> : e \in Extensions}}

\* f"{PREFIX_ATTRIBUTES}/{body["file_name"].split('/', 1)[-1].rsplit('.', 1)[-1]}.json"
ManagedOutputKey(prefix, name) ==
    LET rest == IF Positions(name, "/") = {} THEN name ELSE AfterFirst(name, "/")
        last == IF rest[Len(rest)] \in Extensions
                  THEN << ExtensionName(rest[Len(rest)]) >> ELSE rest
    IN  prefix \o << "/" >> \o last \o << ".json" >>

\* the body of the stored object: file_key and original_file_name
StoredBody(key) == [file_key |-> key, original_file_name |-> key]

StoreInit ==
    store \in {[pc |-> "run", input_key |-> k, extractor |-> e, runs |-> 0,
                bucket |-> [x \in {} |-> StoredBody(<< >>)]] :
                  k \in InputKeys, e \in {"text", "image", "managed"}}

\* run_idp_on_text.lambda_handler: S3_CLIENT.put_object(... Key=...)
StoreText ==
    /\ store.pc = "run"
    /\ store.extractor = "text"
    /\ store' = [store EXCEPT
                   !.bucket = Put(@, OutputKey(PREFIX_ATTRIBUTES, store.input_key),
                                  StoredBody(store.input_key)),
                   !.runs = @ + 1,
                   !.pc = IF store.runs = 1 THEN "done" ELSE "run"]
    /\ UNCHANGED <<llm_vars, chunk_vars, gen, batch, trunc, parse, more_vars>>

\* run_idp_on_image.prepare_and_store_response: s3_client.put_object(... Key=...)
StoreImage ==
    /\ store.pc = "run"
    /\ store.extractor = "image"
    /\ store' = [store EXCEPT
                   !.bucket = Put(@, OutputKey(PREFIX_ATTRIBUTES, store.input_key),
                                  StoredBody(store.input_key)),
                   !.runs = @ + 1,
                   !.pc = IF store.runs = 1 THEN "done" ELSE "run"]
    /\ UNCHANGED <<llm_vars, chunk_vars, gen, batch, trunc, parse, more_vars>>

\* run_bedrock_automation.lambda_handler: S3_CLIENT.put_object(... Key=...)
StoreManaged ==
    /\ store.pc = "run"
    /\ store.extractor = "managed"
    /\ store' = [store EXCEPT
                   !.bucket = Put(@, ManagedOutputKey(PREFIX_ATTRIBUTES, store.input_key),
                                  StoredBody(store.input_key)),
                   !.runs = @ + 1,
                   !.pc = IF store.runs = 1 THEN "done" ELSE "run"]
    /\ UNCHANGED <<llm_vars, chunk_vars, gen, batch, trunc, parse, more_vars>>

StoreNext ==
    \/ StoreText
    \/ StoreImage
    \/ StoreManaged

\* ------------------------------------------------------------------------
\* parse_bedrock_response
\* ------------------------------------------------------------------------

\* the content blocks of response["output"]["message"]["content"]: blocks
\* with a "text" (as pieces) and a reasoning block, which has none
ReplyBlocks ==
    { [type |-> "text", text |-> << "answer" >>],
      [type |-> "text", text |-> << " ", "answer", "\n" >>],
      [type |-> "text", text |-> << "other" >>],
      [type |-> "reasoningContent", text |-> << >>] }

\* variant: the replies are not filtered
AllReplies(replies) == replies

\* [reply for reply in replies if "text" in reply]
TextReplies(replies) == SelectSeq(replies, LAMBDA reply : reply.type = "text")

ParseInit ==
    parse \in {[pc |-> "call", content |-> c, replies |-> << >>,
                result |-> [kind |-> "-", text |-> << >>, error |-> "-"]] :
                  c \in UNION {[1..n -> ReplyBlocks] : n \in 0..MaxBlocks}}

\* replies = response[...]["content"]; for more than one reply the filter
\* and the ValueError
ParseFilter ==
    /\ parse.pc = "call"
    /\ parse' =
         IF 1 < Len(parse.content)
           THEN IF Len(TextReplies(parse.content)) # 1
                  THEN [parse EXCEPT !.pc = "done",
                                     !.replies = TextReplies(parse.content),
                                     !.result = [kind |-> "raise", text |-> << >>,
                                                 error |-> "ValueError"]]
                  ELSE [parse EXCEPT !.pc = "return", !.replies = TextReplies(parse.content)]
           ELSE [parse EXCEPT !.pc = "return", !.replies = parse.content]
    /\ UNCHANGED <<llm_vars, chunk_vars, gen, batch, trunc, store, more_vars>>

\* return replies[0]["text"].strip(): IndexError without a reply, KeyError
\* for a reply without text
ParseReturn ==
    /\ parse.pc = "return"
    /\ parse' =
         [parse EXCEPT
            !.pc = "done",
            !.result =
               IF parse.replies = << >>
                 THEN [kind |-> "raise", text |-> << >>, error |-> "IndexError"]
               ELSE IF parse.replies[1].type # "text"
                 THEN [kind |-> "raise", text |-> << >>, error |-> "KeyError"]
               ELSE [kind |-> "return", text |-> Strip(parse.replies[1].text), error |-> "-"]]
    /\ UNCHANGED <<llm_vars, chunk_vars, gen, batch, trunc, store, more_vars>>

ParseNext ==
    \/ ParseFilter
    \/ ParseReturn

\* ------------------------------------------------------------------------
\* Text extractor: lambda_handler from the prompt template to the result write
\* ------------------------------------------------------------------------

\* prompts/prompt.txt up to its sentinel line
PromptHeader == << "Document:", "{document}" >>

\* prompts/prompt.txt from its sentinel line
PromptTail ==
    << "Attributes to be extracted:", "{attributes}",
       "<document_level_instructions_placeholder>", "Output:" >>

\* "{" + f"few_shot_input_{i}" + "}" for the i-th few-shot (0-based in the name)
FewShotInputPlaceholder(i) == "{few_shot_input_" \o ToString(i - 1) \o "}"

FewShotOutputPlaceholder(i) == "{few_shot_output_" \o ToString(i - 1) \o "}"

\* PROMPT_FEW_SHOT.format(few_shot_input_placeholder=..., few_shot_output_placeholder=...)
PROMPT_FEW_SHOT(i) ==
    << "<example>", FewShotInputPlaceholder(i),
       "Attributes to be extracted:", "{attributes}",
       "<document_level_instructions_placeholder>",
       "Output:", FewShotOutputPlaceholder(i), "</example>" >>

PROMPT_INSTRUCTIONS ==
    << "You must follow these additional instructions:", "{instructions}" >>

\* str.replace(old, new) on a text whose pieces are never split by old
RECURSIVE Replace(_, _, _)
Replace(t, old, new) ==
    IF t = << >> THEN << >>
    ELSE (IF Head(t) = old THEN new ELSE << Head(t) >>) \o Replace(Tail(t), old, new)

RECURSIVE FewShotBlocks(_, _)
FewShotBlocks(i, num_few_shots) ==
    IF i > num_few_shots THEN << >>
    ELSE PROMPT_FEW_SHOT(i) \o FewShotBlocks(i + 1, num_few_shots)

\* load_prompt_template(num_few_shots, instructions)[0]
LoadPromptTemplate(num_few_shots, instructions) ==
    LET prompt == PromptHeader \o FewShotBlocks(1, num_few_shots) \o PromptTail
    IN  IF Strip(instructions) # << >>
          THEN Replace(prompt, "<document_level_instructions_placeholder>", PROMPT_INSTRUCTIONS)
          ELSE Replace(prompt, "<document_level_instructions_placeholder>", << >>)

\* json.dumps(shot["input"], indent=4) of a string
JsonDumpsString(t) == << "\"" >> \o t \o << "\"" >>

\* json.dumps(shot["output"], indent=4) of a dict of one attribute
JsonDumpsOutput(t) ==
    << "{", "\n    ", "\"total\"", ": " >> \o JsonDumpsString(t) \o << "\n", "}" >>

RECURSIVE FewShotVariables(_, _)
FewShotVariables(few_shots, i) ==
    IF i > Len(few_shots) THEN << >>
    ELSE << [name |-> FewShotInputPlaceholder(i), value |-> JsonDumpsString(few_shots[i].input)],
            [name |-> FewShotOutputPlaceholder(i), value |-> JsonDumpsOutput(few_shots[i].output)] >>
         \o FewShotVariables(few_shots, i + 1)

\* prompt_variables, in the insertion order of the dict
PromptVariables(document, attributes_str, instructions, few_shots) ==
    << [name |-> "{document}", value |-> document],
       [name |-> "{attributes}", value |-> attributes_str] >>
    \o (IF Strip(instructions) # << >>
          THEN << [name |-> "{instructions}", value |-> instructions] >> ELSE << >>)
    \o FewShotVariables(few_shots, 1)

\* for variable in prompt_variables:
\*     prompt_template = prompt_template.replace(f"{{{variable}}}", prompt_variables[variable])
RECURSIVE Substitute(_, _)
Substitute(template, variables) ==
    IF variables = << >> THEN template
    ELSE Substitute(Replace(template, Head(variables).name, Head(variables).value),
                    Tail(variables))

\* body["document"] after truncate_document
Documents ==
    { << "invoice", "total 3" >>,
      << "invoice", "{attributes}" >>,
      << "{instructions}", "invoice" >>,
      << "{few_shot_input_0}" >>,
      << "{document}", "invoice" >> }

\* attributes_str
AttributeStrings == { << "1. total: amount due", "\n" >>, << "1. date: day of issue", "\n" >> }

\* body.get("instructions", "")
InstructionTexts == { << >>, << " " >>, << "answer in French" >> }

\* body.get("few_shots", [])
FewShotLists ==
    { << >>,
      << [input |-> << "receipt" >>, output |-> << "7" >>] >>,
      << [input |-> << "bill" >>, output |-> << "9" >>] >> }

\* body["file_key"]
TextFileKey == << "originals", "/", "letter", ".txt" >>

\* variant: parse_json_string outside a try block
AfterParseUnguarded(reply) ==
    IF ParseJsonString(reply).raised
      THEN [pc |-> "raised", response_json |-> DictResponse(EmptyDict)]
      ELSE [pc |-> "store", response_json |-> ParseJsonString(reply).value]

\* try: response_json = parse_json_string(response)
\* except Exception: response_json = {}
AfterParse(reply) ==
    IF ParseJsonString(reply).raised
      THEN [pc |-> "store", response_json |-> DictResponse(EmptyDict)]
      ELSE [pc |-> "store", response_json |-> ParseJsonString(reply).value]

ExtractInit ==
    extract \in [pc : {"prompt"},
                 document : Documents,
                 attributes_str : AttributeStrings,
                 instructions : InstructionTexts,
                 few_shots : FewShotLists,
                 reply_stub : ReplyTexts,
                 prompt_template : {<< >>},
                 response : {<< >>},
                 response_json : {DictResponse(EmptyDict)},
                 bucket : {<< >>}]

\* load_prompt_template, prompt_variables and the loop that fills the template
ExtractBuildMessages ==
    /\ extract.pc = "prompt"
    /\ extract' = [extract EXCEPT
         !.pc = "converse",
         !.prompt_template =
             Substitute(LoadPromptTemplate(Len(extract.few_shots), extract.instructions),
                        PromptVariables(extract.document, extract.attributes_str,
                                        extract.instructions, extract.few_shots))]
    /\ UNCHANGED <<llm_vars, chunk_vars, gen, batch, trunc, store, parse,
                   req, roundtrip, upload, writers>>

\* BEDROCK_CLIENT.converse(...) and parse_bedrock_response(bedrock_response)
ExtractConverse ==
    /\ extract.pc = "converse"
    /\ extract' = [extract EXCEPT !.pc = "parse", !.response = extract.reply_stub]
    /\ UNCHANGED <<llm_vars, chunk_vars, gen, batch, trunc, store, parse,
                   req, roundtrip, upload, writers>>

\* the try block around parse_json_string
ExtractParse ==
    /\ extract.pc = "parse"
    /\ extract' = [extract EXCEPT
         !.pc = AfterParse(extract.response).pc,
         !.response_json = AfterParse(extract.response).response_json]
    /\ UNCHANGED <<llm_vars, chunk_vars, gen, batch, trunc, store, parse,
                   req, roundtrip, upload, writers>>

\* json.dumps({...}) and S3_CLIENT.put_object(...); the handler returns 200
ExtractStore ==
    /\ extract.pc = "store"
    /\ extract' = [extract EXCEPT
         !.pc = "done",
         !.bucket = Append(extract.bucket,
             [Key |-> OutputKey(PREFIX_ATTRIBUTES, TextFileKey),
              Body |-> [answer |-> extract.response_json,
                        raw_answer |-> extract.response,
                        file_key |-> TextFileKey,
                        original_file_name |-> TextFileKey]])]
    /\ UNCHANGED <<llm_vars, chunk_vars, gen, batch, trunc, store, parse,
                   req, roundtrip, upload, writers>>

ExtractNext ==
    \/ ExtractBuildMessages
    \/ ExtractConverse
    \/ ExtractParse
    \/ ExtractStore

\* ------------------------------------------------------------------------
\* generate_conversation: the request it sends
\* temperature and top_p are counted in tenths
\* ------------------------------------------------------------------------

\* model_id, cut at the places the tests of generate_conversation look at
ModelIds ==
    { << "anthropic.", "claude", "-3-7-sonnet", "-20250219-v1:0" >>,
      << "us.anthropic.", "claude", "-3-7-sonnet", "-20250219-v1:0" >>,
      << "anthropic.", "claude", "-3-5-sonnet", "-20240620-v1:0" >>,
      << "anthropic.", "claude", "-sonnet-4", "-20250514-v1:0" >>,
      << "amazon.", "nova-pro-v1:0" >> }

Temperatures == {0, 5, 10}

TopPs == {5, 10}

TopKs == {50, 200}

ThinkingBudgets == {0, 1024, 2048}

\* get_model_params()
GetModelParams ==
    [temperature |-> 0, topP |-> 10, stopSequences |-> << >>, maxTokens |-> 4096]

\* del d[k]
Del(d, k) == [x \in DOMAIN d \ {k} |-> d[x]]

\* "claude" in model_id
IsClaude(model_id) == \E i \in DOMAIN model_id : model_id[i] = "claude"

\* "claude-3-7-sonnet" in model_id
IsClaude37Sonnet(model_id) ==
    \E i \in 1..(Len(model_id) - 1) : model_id[i] = "claude" /\ model_id[i + 1] = "-3-7-sonnet"

\* variant: the thinking fields are set whatever the budget
ThinkingEnabledAnyBudget(model_id, thinking_budget) == IsClaude37Sonnet(model_id)

\* if "claude-3-7-sonnet" in model_id and thinking_budget > 0:
ThinkingEnabled(model_id, thinking_budget) ==
    IsClaude37Sonnet(model_id) /\ thinking_budget > 0

\* inferenceConfig of the converse call
InferenceConfig(model_id, temperature, top_p, thinking_budget) ==
    LET base == Put(Put(GetModelParams, "temperature", temperature), "topP", top_p)
    IN  IF ThinkingEnabled(model_id, thinking_budget)
          THEN Del(Put(base, "temperature", 10), "topP")
          ELSE base

\* additionalModelRequestFields of the converse call
AdditionalModelFields(model_id, top_k, thinking_budget) ==
    LET empty   == [k \in {} |-> 0]
        with_k  == IF IsClaude(model_id) THEN Put(empty, "top_k", top_k) ELSE empty
    IN  IF ThinkingEnabled(model_id, thinking_budget)
          THEN Put(with_k, "thinking", [type |-> "enabled", budget_tokens |-> thinking_budget])
          ELSE with_k

ReqInit ==
    req \in [pc : {"called"},
             model_id : ModelIds,
             temperature : Temperatures,
             top_k : TopKs,
             top_p : TopPs,
             thinking_budget : ThinkingBudgets,
             request : {[sent |-> FALSE]}]

\* generate_conversation up to its first bedrock_client.converse(...)
ReqConverse ==
    /\ req.pc = "called"
    /\ req' = [req EXCEPT
         !.pc = "sent",
         !.request = [sent |-> TRUE,
                      modelId |-> req.model_id,
                      inferenceConfig |->
                          InferenceConfig(req.model_id, req.temperature, req.top_p,
                                          req.thinking_budget),
                      additionalModelRequestFields |->
                          AdditionalModelFields(req.model_id, req.top_k, req.thinking_budget)]]
    /\ UNCHANGED <<llm_vars, chunk_vars, gen, batch, trunc, store, parse,
                   extract, roundtrip, upload, writers>>

ReqNext == ReqConverse

\* ------------------------------------------------------------------------
\* The extractors of one batch, run concurrently, write their results
\* ------------------------------------------------------------------------

\* the key under which an extractor stores the result of a document
WriterKey(extractor, key) ==
    IF extractor = "managed" THEN ManagedOutputKey(PREFIX_ATTRIBUTES, key)
    ELSE OutputKey(PREFIX_ATTRIBUTES, key)

\* two documents of one batch with distinct input keys, each with the
\* extractor it was routed to
WritersInit ==
    writers \in {[pc |-> "map", docs |-> << [key |-> k1, extractor |-> e1],
                                            [key |-> k2, extractor |-> e2] >>,
                  written |-> {}, bucket |-> [x \in {} |-> StoredBody(<< >>)]] :
                    k1 \in InputKeys, k2 \in InputKeys,
                    e1 \in {"text", "image", "managed"}, e2 \in {"text", "image", "managed"}}
    /\ writers.docs[1].key # writers.docs[2].key

\* the extractor of document i reaches its put_object
WriterPut(i) ==
    /\ writers.pc = "map"
    /\ i \in DOMAIN writers.docs
    /\ i \notin writers.written
    /\ writers' = [writers EXCEPT
         !.bucket = Put(@, WriterKey(writers.docs[i].extractor, writers.docs[i].key),
                        StoredBody(writers.docs[i].key)),
         !.written = @ \cup {i},
         !.pc = IF writers.written \cup {i} = DOMAIN writers.docs THEN "done" ELSE "map"]
    /\ UNCHANGED <<llm_vars, chunk_vars, gen, batch, trunc, store, parse,
                   extract, req, roundtrip, upload>>

WritersNext == \E i \in 1..2 : WriterPut(i)

\* ------------------------------------------------------------------------
\* parse_json_string on a serialised answer: "<json>" + json.dumps(J) + "</json>"
\* ------------------------------------------------------------------------

\* the JSON values of an attribute: numbers, an array, a string, the three
\* JSON names, and an object
JsonValues ==
    { [kind |-> "number", v |-> ScalarValue(3)],
      [kind |-> "number", v |-> ScalarValue(0)],
      [kind |-> "array", v |-> ListValue(<< 1, 2 >>)],
      [kind |-> "array", v |-> ListValue(<< >>)],
      [kind |-> "string", v |-> StringValue("paid")],
      [kind |-> "true", v |-> NameValue("True")],
      [kind |-> "false", v |-> NameValue("False")],
      [kind |-> "null", v |-> NameValue("None")],
      [kind |-> "object", v |-> DictValue([k \in {"total"} |-> ScalarValue(3)])],
      [kind |-> "object", v |-> DictValue(EmptyDict)] }

\* the answers J: objects over the keys pages and total, in that order
JsonObjects == UNION {[ks -> JsonValues] : ks \in SUBSET {"pages", "total"}}

\* json.dumps of a list of numbers
RECURSIVE DumpsItems(_)
DumpsItems(items) ==
    IF items = << >> THEN << >>
    ELSE << ToString(Head(items)) >>
         \o (IF Len(items) > 1 THEN << ",", " " >> ELSE << >>)
         \o DumpsItems(Tail(items))

\* json.dumps of a key
DumpsKey(k) == IF k = "pages" THEN "\"pages\"" ELSE "\"total\""

\* json.dumps of a value; an object inside has the key total or is empty
DumpsValue(j) ==
    IF j.kind = "number" THEN << ToString(j.v.items[1]) >>
    ELSE IF j.kind = "array" THEN << "[" >> \o DumpsItems(j.v.items) \o << "]" >>
    ELSE IF j.kind = "string" THEN << "\"paid\"" >>
    ELSE IF j.kind \in {"true", "false", "null"} THEN << j.kind >>
    ELSE IF DOMAIN j.v.obj = {} THEN << "{", "}" >>
    ELSE << "{", DumpsKey("total"), ":", " ",
            ToString(j.v.obj["total"].items[1]), "}" >>

\* json.dumps(J): the keys in insertion order, ", " and ": " as separators
JsonDumps(J) ==
    LET entry(k) == << DumpsKey(k), ":", " " >> \o DumpsValue(J[k])
    IN  << "{" >>
        \o (IF "pages" \in DOMAIN J THEN entry("pages") ELSE << >>)
        \o (IF DOMAIN J = {"pages", "total"} THEN << ",", " " >> ELSE << >>)
        \o (IF "total" \in DOMAIN J THEN entry("total") ELSE << >>)
        \o << "}" >>

\* what json.loads gives for J, as a parsed reply
Loaded(J) == DictResponse([k \in DOMAIN J |-> J[k].v])

\* the reply: an optional thinking block, then the tagged answer
TaggedReply(J, thinking) ==
    (IF thinking THEN << "<thinking>", "the total is on page one", "</thinking>", "\n" >>
     ELSE << >>)
    \o << "<json>" >> \o JsonDumps(J) \o << "</json>" >>

RoundTripInit ==
    roundtrip \in [pc : {"answer"}, J : JsonObjects, thinking : BOOLEAN,
                   reply : {<< >>}, raised : {FALSE},
                   parsed : {DictResponse(EmptyDict)}]

\* the model's reply carries J
RoundTripReply ==
    /\ roundtrip.pc = "answer"
    /\ roundtrip' = [roundtrip EXCEPT
         !.pc = "reply", !.reply = TaggedReply(roundtrip.J, roundtrip.thinking)]
    /\ UNCHANGED <<llm_vars, chunk_vars, gen, batch, trunc, store, parse,
                   extract, req, upload, writers>>

\* parse_json_string(reply) returns or raises
RoundTripParse ==
    /\ roundtrip.pc = "reply"
    /\ roundtrip' = [roundtrip EXCEPT
         !.pc = "parsed",
         !.raised = ParseJsonString(roundtrip.reply).raised,
         !.parsed = ParseJsonString(roundtrip.reply).value]
    /\ UNCHANGED <<llm_vars, chunk_vars, gen, batch, trunc, store, parse,
                   extract, req, upload, writers>>

RoundTripNext ==
    \/ RoundTripReply
    \/ RoundTripParse

\* ------------------------------------------------------------------------
\* Front end: upload_all_files_async
\* ------------------------------------------------------------------------

\* the keys api.invoke_file_upload_async can return (fields["key"])
UploadKeys ==
    { << "originals/", "a.pdf" >>, << "originals/", "b.pdf" >>, << "originals/", "c.png" >> }

\* what the upload of one document does: it returns its key, or it raises
UploadOutcomes ==
    [kind : {"return"}, key : UploadKeys] \cup [kind : {"raise"}, key : {<< >>}]

\* variant: the key is stored at the position of its completion
SlotByCompletion(doc_idx, completed) == completed

\* file_keys[doc_idx] = file_key
SlotOf(doc_idx, completed) == doc_idx

\* file_keys = [""] * len(docs); tasks = [upload_file_async(doc, access_token, idx) ...]
UploadInit ==
    upload \in {[pc |-> "as_completed", stub |-> s,
                 task |-> [i \in DOMAIN s |-> "pending"],
                 finished |-> << >>,
                 file_keys |-> [i \in DOMAIN s |-> << >>],
                 completed |-> 0, total |-> Len(s), progress |-> << >>] :
                   s \in UNION {[1..n -> UploadOutcomes] : n \in 0..MaxDocs}}

\* the upload of document i ends: upload_file_async returns (i, key) or raises
UploadTaskDone(i) ==
    /\ upload.pc = "as_completed"
    /\ i \in DOMAIN upload.task
    /\ upload.task[i] = "pending"
    /\ upload' = [upload EXCEPT !.task[i] = "done", !.finished = Append(@, i)]
    /\ UNCHANGED <<llm_vars, chunk_vars, gen, batch, trunc, store, parse,
                   extract, req, roundtrip, writers>>

\* one round of "for task in asyncio.as_completed(tasks)": the task that
\* ended next is awaited; its exception leaves the function
UploadNextCompleted ==
    /\ upload.pc = "as_completed"
    /\ upload.completed < Len(upload.finished)
    /\ LET doc_idx == upload.finished[upload.completed + 1]
           result  == upload.stub[doc_idx]
           n       == upload.completed + 1
       IN  upload' =
             IF result.kind = "raise" THEN [upload EXCEPT !.pc = "raised"]
             ELSE [upload EXCEPT
                     !.completed = n,
                     !.file_keys[SlotOf(doc_idx, n)] = result.key,
                     !.progress = Append(@, [completed |-> n, total |-> upload.total])]
    /\ UNCHANGED <<llm_vars, chunk_vars, gen, batch, trunc, store, parse,
                   extract, req, roundtrip, writers>>

\* return file_keys
UploadReturn ==
    /\ upload.pc = "as_completed"
    /\ upload.completed = upload.total
    /\ upload' = [upload EXCEPT !.pc = "returned"]
    /\ UNCHANGED <<llm_vars, chunk_vars, gen, batch, trunc, store, parse,
                   extract, req, roundtrip, writers>>

UploadNext ==
    \/ \E i \in 1..MaxDocs : UploadTaskDone(i)
    \/ UploadNextCompleted
    \/ UploadReturn

GenIdle == gen = [pc |-> "idle"]

BatchIdle == batch = [pc |-> "idle"]

TruncIdle == trunc = [pc |-> "idle"]

StoreIdle == store = [pc |-> "idle"]

ParseIdle == parse = [pc |-> "idle"]

ExtractIdle == extract = [pc |-> "idle"]

ReqIdle == req = [pc |-> "idle"]

RoundTripIdle == roundtrip = [pc |-> "idle"]

UploadIdle == upload = [pc |-> "idle"]

WritersIdle == writers = [pc |-> "idle"]

MoreIdle == ExtractIdle /\ ReqIdle /\ RoundTripIdle /\ UploadIdle /\ WritersIdle

OtherIdle == GenIdle /\ BatchIdle /\ TruncIdle /\ StoreIdle /\ ParseIdle

InitLLM == LLMInit /\ ChunkIdle /\ GenIdle /\ BatchIdle /\ TruncIdle /\ StoreIdle /\ ParseIdle /\ MoreIdle

\* one call of call_bedrock against a stubbed provider
SpecLLM == InitLLM /\ [][LLMNext]_vars

Init ==
    /\ ChunkInit(MaxChunks, StubOutcomes)
    /\ LLMIdle /\ GenIdle /\ BatchIdle /\ TruncIdle /\ StoreIdle /\ ParseIdle /\ MoreIdle

Next == ChunkNext

\* one invocation of the image extractor on a document of 1..MaxChunks chunks
Spec == Init /\ [][Next]_vars

InitPool ==
    /\ ChunkInit(MaxPoolChunks, PoolStubOutcomes)
    /\ LLMIdle /\ GenIdle /\ BatchIdle /\ TruncIdle /\ StoreIdle /\ ParseIdle /\ MoreIdle

\* the worker pool on a document of up to MaxPoolChunks chunks
SpecPool == InitPool /\ [][Next]_vars

InitGen ==
    /\ GenInit
    /\ ChunkIdle /\ LLMIdle /\ BatchIdle /\ TruncIdle /\ StoreIdle /\ ParseIdle /\ MoreIdle

\* one run of the chunk generator, drained by lambda_handler's loop
SpecGen == InitGen /\ [][GenNext]_vars

InitBatch ==
    /\ BatchInit
    /\ ChunkIdle /\ LLMIdle /\ GenIdle /\ TruncIdle /\ StoreIdle /\ ParseIdle /\ MoreIdle

\* one request of a client of the orchestration
SpecBatch == InitBatch /\ [][BatchNext]_vars

\* the same, where the client's thread and the execution keep taking their
\* steps: neither stops while it has a step to take
SpecBatchFair == InitBatch /\ [][BatchNext]_vars /\ WF_vars(BatchNext)

InitTrunc ==
    /\ TruncInit
    /\ ChunkIdle /\ LLMIdle /\ GenIdle /\ BatchIdle /\ StoreIdle /\ ParseIdle /\ MoreIdle

\* the text extractor from its token counts to the document of the prompt
SpecTrunc == InitTrunc /\ [][TruncNext]_vars

InitStore ==
    /\ StoreInit
    /\ ChunkIdle /\ LLMIdle /\ GenIdle /\ BatchIdle /\ TruncIdle /\ ParseIdle /\ MoreIdle

\* an extractor stores the result of a document, and once more on a retry
SpecStore == InitStore /\ [][StoreNext]_vars

InitParse ==
    /\ ParseInit
    /\ ChunkIdle /\ LLMIdle /\ GenIdle /\ BatchIdle /\ TruncIdle /\ StoreIdle /\ MoreIdle

\* one call of parse_bedrock_response
SpecParse == InitParse /\ [][ParseNext]_vars

InitExtract ==
    /\ ExtractInit
    /\ ChunkIdle /\ LLMIdle /\ OtherIdle
    /\ ReqIdle /\ RoundTripIdle /\ UploadIdle /\ WritersIdle

\* one invocation of the text extractor, from the prompt to the result write
SpecExtract == InitExtract /\ [][ExtractNext]_vars

InitExtractors ==
    \/ InitExtract
    \/ Init

\* one invocation of the text extractor or one of the image extractor
SpecExtractors == InitExtractors /\ [][ExtractNext \/ ChunkNext]_vars

InitReq ==
    /\ ReqInit
    /\ ChunkIdle /\ LLMIdle /\ OtherIdle
    /\ ExtractIdle /\ RoundTripIdle /\ UploadIdle /\ WritersIdle

\* one call of generate_conversation up to the request it sends
SpecReq == InitReq /\ [][ReqNext]_vars

InitWriters ==
    /\ WritersInit
    /\ ChunkIdle /\ LLMIdle /\ OtherIdle
    /\ ExtractIdle /\ ReqIdle /\ RoundTripIdle /\ UploadIdle

\* the result writes of the documents of one batch, in any order
SpecWriters == InitWriters /\ [][WritersNext]_vars

InitRoundTrip ==
    /\ RoundTripInit
    /\ ChunkIdle /\ LLMIdle /\ OtherIdle
    /\ ExtractIdle /\ ReqIdle /\ UploadIdle /\ WritersIdle

\* parse_json_string on the tagged serialisation of an answer
SpecRoundTrip == InitRoundTrip /\ [][RoundTripNext]_vars

InitUpload ==
    /\ UploadInit
    /\ ChunkIdle /\ LLMIdle /\ OtherIdle
    /\ ExtractIdle /\ ReqIdle /\ RoundTripIdle /\ WritersIdle

\* one call of upload_all_files_async, the uploads ending in any order
SpecUpload == InitUpload /\ [][UploadNext]_vars


\* ------------------------------------------------------------------------
\* Properties
\* ------------------------------------------------------------------------

Ended == pc \in {"returned", "raised", "stored"}

\* what processing chunk i yields, from its stub alone
ChunkResult(i) == ProcessChunk(llm_stub[i])

Failed(i) == llm_stub[i].kind = "raise"

AllSucceed == \A i \in 1..NChunks : ~Failed(i)

\* C1: whatever the mode, a chunk that raises does not make process_chunks
\* raise; once process_chunks has returned there are N parsed results and N
\* raw answers, the slot of a failed chunk is ({}, "Error: <message>") and
\* every other chunk has been processed.
C1_ChunkFailureIsolated ==
    /\ pc # "raised"
    /\ pc = "returned" =>
         /\ Len(all_responses) = NChunks
         /\ Len(all_raw_responses) = NChunks
         /\ \A i \in 1..NChunks :
              IF Failed(i)
                THEN /\ all_responses[i] = DictResponse(EmptyDict)
                     /\ all_raw_responses[i] = << "Error: ", llm_stub[i].error >>
                ELSE /\ all_responses[i] = ChunkResult(i).response_json
                     /\ all_raw_responses[i] = llm_stub[i].text

C3_WorkerCap ==
    /\ UseExecutor => Cardinality(Running) <= (IF NChunks < 10 THEN NChunks ELSE 10)
    /\ ~UseExecutor =>
         /\ Cardinality(Running) <= 1
         /\ \A i \in 1..(NChunks - 1) : status[i + 1] # "QUEUED" => status[i] = "DONE"

\* eleven chunks: ten are running and the eleventh waits for a free worker
C3_Witness ==
    /\ UseExecutor
    /\ NChunks = 11
    /\ Cardinality(Running) = 10
    /\ status[11] = "QUEUED"
    /\ submitted = 11

\* C4: the batch drains: when process_chunks has ended, by return or by an
\* exception, every chunk has reached DONE; the ERROR of one chunk leaves no
\* sibling unprocessed.
C4_BatchDrains ==
    Ended => \A i \in 1..NChunks : status[i] = "DONE"

\* C5: at most 6 provider calls and 5 retries; only a throttled call is
\* followed by another call; a successful call ends generate_conversation
\* with that call's response; six throttled calls end in the permanent error.
C5_RetryBudget ==
    /\ Len(converse_log) <= 6
    /\ retry_count <= 5
    /\ Len(converse_log) <= retry_count + 1
    /\ \A i \in 1..(Len(converse_log) - 1) : IsThrottling(converse_log[i])
    /\ (converse_log # << >> /\ converse_log[Len(converse_log)].kind = "ok") =>
         /\ llm_pc \in {"gc_returned", "cb_returned"}
         /\ response = converse_log[Len(converse_log)].content
    /\ (Len(converse_log) = 6 /\ IsThrottling(converse_log[6])) =>
         /\ llm_pc \in {"gc_raised", "cb_raised"}
         /\ exc = PermanentError

\* the first call and all five retries were throttled
C5_Witness ==
    /\ Len(converse_log) = 6
    /\ \A i \in 1..6 : IsThrottling(converse_log[i])
    /\ llm_pc = "cb_raised"
    /\ cb_result.text = PermanentError

\* C6: a non-throttling provider error is the last provider call, and the
\* caller of call_bedrock gets no normal return for it.
C6_NonThrottlingSurfaced ==
    \A i \in 1..Len(converse_log) :
        IsNonThrottlingError(converse_log[i]) =>
            /\ i = Len(converse_log)
            /\ llm_pc # "cb_returned"

\* C7: after m throttled attempts and a success there were exactly m retries;
\* the delay before retry k lies in [0.8 * 2^k, 1.2 * 2^k] and the delays are
\* strictly increasing (unit: 1/(10*JitterSteps) s).
C7_BackoffIncreasing ==
    /\ Len(delays) = retry_count
    /\ \A k \in 1..Len(delays) :
         /\ delays[k] >= Pow2(k) * 8 * JitterSteps
         /\ delays[k] <= Pow2(k) * 12 * JitterSteps
    /\ \A k \in 1..(Len(delays) - 1) : delays[k] < delays[k + 1]
    /\ (llm_pc = "gc_returned" /\ Len(converse_log) >= 2) =>
         /\ retry_count = Len(converse_log) - 1
         /\ \A i \in 1..retry_count : IsThrottling(converse_log[i])

\* attempts 1-3 throttled, attempt 4 succeeds, the jitter at both ends
C7_Witness ==
    /\ llm_pc = "gc_returned"
    /\ retry_count = 3
    /\ delays[1] = 2 * 12 * JitterSteps
    /\ delays[2] = 4 * 8 * JitterSteps
    /\ delays[3] = 8 * 12 * JitterSteps

\* ---- the merge as the left fold of section 4.7 ----
MergeValue(acc, new) ==
    IF acc.isList /\ new.isList THEN ListValue(acc.items \o new.items)
    ELSE IF ~acc.isList /\ ~new.isList THEN ListValue(<< acc.items[1], new.items[1] >>)
    ELSE IF acc.isList THEN ListValue(acc.items \o << new.items[1] >>)
    ELSE ListValue(<< acc.items[1] >> \o new.items)

MergeStep(acc, r) ==
    [k \in DOMAIN acc \cup DOMAIN r |->
        IF k \notin DOMAIN r THEN acc[k]
        ELSE IF k \notin DOMAIN acc THEN r[k]
        ELSE MergeValue(acc[k], r[k])]

RECURSIVE FoldLeft(_, _)
FoldLeft(acc, rs) == IF rs = << >> THEN acc ELSE FoldLeft(MergeStep(acc, Head(rs)), Tail(rs))

\* the results of the chunks of the index set I, in page order
RECURSIVE ObjectsFrom(_, _)
ObjectsFrom(i, I) ==
    IF i > NChunks THEN << >>
    ELSE (IF i \in I THEN << ChunkResult(i).response_json.dict >> ELSE << >>)
         \o ObjectsFrom(i + 1, I)

\* the dicts among the chunk results, in page order
ChunkObjects == ObjectsFrom(1, {i \in 1..NChunks : IsDict(ChunkResult(i).response_json)})

\* the scalar values a key has in the chunk objects, in page order
RECURSIVE ScalarsOf(_, _)
ScalarsOf(k, rs) ==
    IF rs = << >> THEN << >>
    ELSE (IF k \in DOMAIN Head(rs) THEN << Head(rs)[k].items[1] >> ELSE << >>)
         \o ScalarsOf(k, Tail(rs))

OnlyScalars(k, rs) == \A i \in 1..Len(rs) : k \in DOMAIN rs[i] => ~rs[i][k].isList

Contributes(i) ==
    /\ ~Failed(i)
    /\ IsDict(ChunkResult(i).response_json)
    /\ DOMAIN ChunkResult(i).response_json.dict # {}

\* C9: for more than one chunk the stored answer is the merge of the
\* contributing chunks alone, and the stored result has answer and
\* raw_answer and no error field.
C9_OnlyObjectsContribute ==
    (pc = "stored" /\ NChunks > 1) =>
        /\ stored[1].Body.answer = DictResponse(FoldLeft(EmptyDict, ObjectsFrom(1, {i \in 1..NChunks : Contributes(i)})))
        /\ {"answer", "raw_answer"} \subseteq DOMAIN stored[1].Body
        /\ "error" \notin DOMAIN stored[1].Body

\* chunk 2 of 3 failed, chunks 1 and 3 are the answer
C9_Witness ==
    /\ pc = "stored"
    /\ NChunks = 3
    /\ Failed(2)
    /\ Contributes(1)
    /\ Contributes(3)
    /\ stored[1].Body.answer.dict["pages"] = ListValue(<< 1, 2 >>)

\* the raw answer of chunk i as process_chunks records it
RawEntry(i) == IF Failed(i) THEN << "Error: ", llm_stub[i].error >> ELSE llm_stub[i].text

RECURSIVE RawUpTo(_)
RawUpTo(n) ==
    IF n = 0 THEN << >>
    ELSE RawUpTo(n - 1) \o (IF n > 1 THEN << "\n\n" >> ELSE << >>)
         \o << "CHUNK ", ToString(n), ":\n" >> \o RawEntry(n)

\* C10: for N > 1 chunks raw_answer is the N raw answers in page order, entry
\* i under the header "CHUNK i:\n", a failed chunk's entry being
\* "Error: <message>", and chunks_processed is N.
C10_RawAnswerHeaders ==
    (pc = "stored" /\ NChunks > 1) =>
        /\ stored[1].Body.raw_answer = RawUpTo(NChunks)
        /\ stored[1].Body.chunks_processed = NChunks

\* two chunks, the second failed
C10_Witness ==
    /\ pc = "stored"
    /\ NChunks = 2
    /\ ~Failed(1)
    /\ Failed(2)
    /\ stored[1].Body.raw_answer =
         << "CHUNK ", "1", ":\n" >> \o llm_stub[1].text
         \o << "\n\n", "CHUNK ", "2", ":\n", "Error: ", PermanentError >>

\* ---- the chunk generator ----

\* the generator has run to its end on a file with pages
GenDone == gen.pc = "done" /\ gen.file.kind # "none"

CeilDiv(a, b) == (a + b - 1) \div b

\* the pages of the yielded chunks, chunk after chunk
RECURSIVE PagesOf(_)
PagesOf(msgs) ==
    IF msgs = << >> THEN << >>
    ELSE [k \in 1..Len(Head(msgs).images) |-> Head(msgs).images[k].bytes] \o PagesOf(Tail(msgs))

FirstPage(msg) == msg.images[1].bytes

LastPage(msg) == msg.images[Len(msg.images)].bytes

\* C11: the N >= 1 pages of a document are yielded as exactly
\* ceil(N / chunk_size) chunks of 1..chunk_size pages each, and the chunks
\* one after the other are the pages 1..N in page order, each page once.
C11_ChunksPartitionPages ==
    GenDone =>
        /\ Len(gen.yielded) = CeilDiv(gen.file.pages, gen.max_pages)
        /\ \A c \in 1..Len(gen.yielded) :
             /\ Len(gen.yielded[c].images) >= 1
             /\ Len(gen.yielded[c].images) <= gen.max_pages
        /\ PagesOf(gen.yielded) = [p \in 1..gen.file.pages |-> p]

\* 25 pages with chunk_size 10: chunks of 10, 10 and 5 pages
C11_Witness ==
    /\ GenDone
    /\ gen.file.pages = 25
    /\ gen.max_pages = 10
    /\ Len(gen.yielded) = 3
    /\ Len(gen.yielded[1].images) = 10
    /\ Len(gen.yielded[2].images) = 10
    /\ Len(gen.yielded[3].images) = 5

\* C12: a chunk's text starts with "Processing pages A:B. " exactly when the
\* document has more than one chunk; A and B are the numbers of the chunk's
\* first and last page, the first range starts at 1, each range starts right
\* after the one before it, and the last range ends at N.
C12_PageRangePrefix ==
    GenDone =>
        \A c \in 1..Len(gen.yielded) :
            LET msg == gen.yielded[c]
            IN  /\ Len(gen.yielded) > 1 =>
                     msg.text = << "Processing pages ", ToString(FirstPage(msg)), ":",
                                   ToString(LastPage(msg)), ". " >> \o filled_template
                /\ Len(gen.yielded) = 1 => msg.text = filled_template
                /\ FirstPage(msg) = IF c = 1 THEN 1 ELSE LastPage(gen.yielded[c - 1]) + 1
                /\ c = Len(gen.yielded) => LastPage(msg) = gen.file.pages

\* 25 pages with chunk_size 10: the ranges are 1:10, 11:20 and 21:25
C12_Witness ==
    /\ GenDone
    /\ gen.file.pages = 25
    /\ gen.max_pages = 10
    /\ Len(gen.yielded) = 3
    /\ SubSeq(gen.yielded[1].text, 1, 4) = << "Processing pages ", "1", ":", "10" >>
    /\ SubSeq(gen.yielded[2].text, 1, 4) = << "Processing pages ", "11", ":", "20" >>
    /\ SubSeq(gen.yielded[3].text, 1, 4) = << "Processing pages ", "21", ":", "25" >>

\* ---- the clients of the orchestration ----

\* the client has ended after an execution that SUCCEEDED
BatchSucceeded == batch.pc = "done" /\ batch.status = "SUCCEEDED"

\* what the caller holds: the tool's results, or the session state of the UI
Delivered == IF batch.client = "mcp" THEN batch.tool_response.results ELSE batch.results

\* C13: when a document of the batch failed, the caller still receives the
\* batch: the client does not raise, the result has one entry per document,
\* the failed document's entry carries the error and every other entry the
\* document's answer.
C13_BatchSurvivesDocumentFailure ==
    BatchSucceeded =>
        /\ batch.error = "-"
        /\ Len(Delivered) = Len(batch.documents)
        /\ \A i \in 1..Len(batch.documents) :
             IF batch.outputs[i].kind = "error"
               THEN Delivered[i].error = batch.outputs[i].error
               ELSE Delivered[i].attributes = batch.outputs[i].answer

\* key is what document reference ref resolves to
BelongsTo(key, ref) ==
    \/ key = << "originals/", ref.stem, ref.ext >>
    \/ /\ Len(key) = 5
       /\ key[1] = "uploaded/"
       /\ key[2] = ref.stem
       /\ key[5] = ref.ext

\* process_document_paths has returned
ResolutionReturned == batch.client = "mcp" /\ (batch.pc = "start" \/ batch.status # "-")

\* run_idp_bedrock_api has returned its results to the tool
ResultsReturned == batch.client = "mcp" /\ batch.pc = "done" /\ batch.tool_response.success

\* C14: for a request with N documents process_document_paths returns N
\* keys, key i resolved from document i, and the results run_idp_bedrock_api
\* returns have N entries, entry i's file_key belonging to document i.
C14_BatchKeepsDocumentOrder ==
    /\ ResolutionReturned =>
         /\ Len(batch.processed_documents) = Len(batch.documents)
         /\ \A i \in 1..Len(batch.documents) :
              BelongsTo(batch.processed_documents[i], batch.documents[i])
    /\ ResultsReturned =>
         /\ Len(batch.tool_response.results) = Len(batch.documents)
         /\ \A i \in 1..Len(batch.documents) :
              BelongsTo(batch.tool_response.results[i].file_key, batch.documents[i])

\* a presigned URL, a key and a URI of another bucket, in that order
C14_Witness ==
    /\ ResultsReturned
    /\ Len(batch.documents) = 3
    /\ batch.documents[1].kind = "url" /\ batch.documents[1].stem = "memo"
    /\ batch.documents[2].kind = "key" /\ batch.documents[2].stem = "inv"
    /\ batch.documents[3].kind = "s3_uri" /\ batch.documents[3].bucket = OtherBucket
    /\ batch.tool_response.results[1].file_key = << "uploaded/", "memo", "_", "9c", ".pdf" >>
    /\ batch.tool_response.results[2].file_key = << "originals/", "inv", ".pdf" >>
    /\ batch.tool_response.results[3].file_key[1] = "uploaded/"

\* ---- truncate_document ----

TruncDone == trunc.pc = "done"

\* C15: the truncated document and the prompt overhead are within the
\* budget: count(result) + P <= B, also after the largest multiplier.
C15_TruncatedWithinBudget ==
    TruncDone =>
        TokenCountTokenizer(trunc.document) + trunc.num_token_prompt <= trunc.max_token_model

\* C16: when the total count is within the budget the document of the
\* prompt is the original document, and it holds no ellipsis marker.
C16_FittingDocumentUnchanged ==
    (TruncDone /\ trunc.token_count_total <= trunc.max_token_model) =>
        /\ trunc.document = JoinSpaces(trunc.doc_words)
        /\ \A i \in 1..Len(trunc.document) : trunc.document[i] # "\n...\n"

\* C17: for a document of at least two words the result is a non-empty
\* prefix of its words, the marker, and a non-empty suffix of its words, so
\* the first and the last word are kept.
C17_HeadAndTailKept ==
    (TruncDone /\ Len(trunc.doc_words) >= 2) =>
        \E h, t \in 1..Len(trunc.doc_words) :
            trunc.document =
                JoinSpaces(SubSeq(trunc.doc_words, 1, h))
                \o << "\n...\n" >>
                \o JoinSpaces(SubSeq(trunc.doc_words, Len(trunc.doc_words) - t + 1,
                                     Len(trunc.doc_words)))

\* ---- the result write ----

\* the input key without its leading prefix and without a .txt extension
KeyStem(key) ==
    LET slash == {i \in 1..Len(key) : key[i] = "/"}
        rest  == IF slash = {} THEN key ELSE SubSeq(key, Min(slash) + 1, Len(key))
    IN  IF rest[Len(rest)] = ".txt" THEN SubSeq(rest, 1, Len(rest) - 1) ELSE rest

\* C18: whichever extractor stores it, the result of a document is stored
\* under attributes/<input key without its leading prefix and without a
\* .txt extension>.json, so after a second run there is still that one
\* object.
C18_OutputKeyFromInputKey ==
    store.runs >= 1 =>
        DOMAIN store.bucket = {<< "attributes", "/" >> \o KeyStem(store.input_key) \o << ".json" >>}

\* ---- the content blocks of a provider message ----

\* the positions of the blocks that bear text
TextBearing(content) == {i \in 1..Len(content) : content[i].type = "text"}

\* call_bedrock has returned after generate_conversation gave a message
MessageReturned ==
    /\ llm_pc = "cb_returned"
    /\ converse_log[Len(converse_log)].kind = "ok"

\* C19: for a provider message call_bedrock returns the text of the first
\* block that bears text, wherever it stands, with the extended message
\* list; it returns the empty string and no messages exactly when no block
\* bears text.
C19_FirstTextBlockReturned ==
    MessageReturned =>
        IF TextBearing(response) = {}
          THEN cb_result.text = "" /\ cb_result.out_messages = << >>
          ELSE /\ cb_result.text = response[Min(TextBearing(response))].text
               /\ cb_result.out_messages = Append(messages, "assistant")

\* ---- parse_bedrock_response ----

\* the blocks of the response that bear text, in their order
TextBlocksOf(content) == SelectSeq(content, LAMBDA b : b.type = "text")

\* C20: with exactly one text-bearing block in the response the call returns
\* that block's text (stripped), reasoning blocks being left out; with more
\* than one it raises; it never returns when several blocks bear text.
C20_SingleTextBlockOrError ==
    parse.pc = "done" =>
        /\ Len(TextBlocksOf(parse.content)) = 1 =>
             /\ parse.result.kind = "return"
             /\ parse.result.text = Strip(TextBlocksOf(parse.content)[1].text)
        /\ Len(TextBlocksOf(parse.content)) > 1 => parse.result.kind = "raise"
        /\ parse.result.kind = "return" => Len(TextBlocksOf(parse.content)) = 1

\* two reasoning blocks around the one text block
C20_Witness ==
    /\ parse.pc = "done"
    /\ Len(parse.content) = 3
    /\ parse.content[1].type = "reasoningContent"
    /\ parse.content[2].text = << " ", "answer", "\n" >>
    /\ parse.content[3].type = "reasoningContent"
    /\ parse.result = [kind |-> "return", text |-> << "answer" >>, error |-> "-"]

\* the text extractor got a reply that parse_json_string cannot parse
ReplyUnparsed ==
    /\ extract.pc \in {"store", "done", "raised"}
    /\ ParseJsonString(extract.response).raised

\* chunks of the image extractor whose reply parse_json_string cannot parse
UnparsedChunks ==
    {i \in 1..NChunks : /\ status[i] \in {"PARSED", "MALFORMED", "DONE"}
                        /\ ParseJsonString(llm_stub[i].text).raised}

UnparsedChunkStored ==
    /\ pc = "stored"
    /\ UnparsedChunks # {}

\* the request of a finished call, and the fields the claims speak of
RequestSent == req.pc = "sent"

\* C22: the request carries temperature 1.0 and no topP exactly when the
\* model supports the thinking budget and thinking_budget > 0, and then the
\* thinking fields are set; otherwise the caller's temperature and top_p are
\* sent and no thinking field; top_k is sent exactly for the claude family
C22_ThinkingOverridesSampling ==
    RequestSent =>
      LET ic       == req.request.inferenceConfig
          amf      == req.request.additionalModelRequestFields
          thinking == IsClaude37Sonnet(req.model_id) /\ req.thinking_budget > 0
      IN  /\ thinking <=> ("topP" \notin DOMAIN ic)
          /\ thinking =>
               /\ ic.temperature = 10
               /\ "thinking" \in DOMAIN amf
               /\ amf.thinking = [type |-> "enabled", budget_tokens |-> req.thinking_budget]
          /\ ~thinking =>
               /\ ic.temperature = req.temperature
               /\ ic.topP = req.top_p
               /\ "thinking" \notin DOMAIN amf
          /\ ("top_k" \in DOMAIN amf) <=> IsClaude(req.model_id)
          /\ IsClaude(req.model_id) => amf.top_k = req.top_k

C22_Witness ==
    /\ RequestSent
    /\ req.thinking_budget = 1024
    /\ req.temperature = 0
    /\ IsClaude37Sonnet(req.model_id)
    /\ req.request.inferenceConfig.temperature = 10
    /\ "topP" \notin DOMAIN req.request.inferenceConfig

\* the execution has ended and the client is still in its polling loop
ExecutionEnded ==
    /\ batch.pc \in {"sleep", "poll"}
    /\ batch.status \in TerminalStatuses

\* C23: the polling clients terminate: once the execution has reached a
\* terminal status (SUCCEEDED, FAILED, TIMED_OUT or ABORTED) the call
\* eventually returns the results or raises
C23_PollingTerminates == ExecutionEnded ~> (batch.pc = "done")

\* the same for the two statuses the loop tests for
PollingTerminatesOnTestedStatus ==
    (ExecutionEnded /\ batch.status \in {"SUCCEEDED", "FAILED"}) ~> (batch.pc = "done")

\* C24: within one batch, two documents with distinct input keys are never
\* stored under the same output key: the stored result of every document
\* that was written is still its own, whatever its siblings wrote since
C24_SiblingsKeepTheirResults ==
    \A i \in writers.written :
       LET k == WriterKey(writers.docs[i].extractor, writers.docs[i].key)
       IN  /\ k \in DOMAIN writers.bucket
           /\ writers.bucket[k] = StoredBody(writers.docs[i].key)

\* the same for the text and image extractors on keys of one folder that
\* all carry an extension other than .txt
SiblingsOfOneFolderKeepTheirResults ==
    (\A i \in DOMAIN writers.docs :
        /\ writers.docs[i].extractor # "managed"
        /\ Len(writers.docs[i].key) = 4
        /\ writers.docs[i].key[1] = "originals"
        /\ writers.docs[i].key[Len(writers.docs[i].key)] \in {".pdf", ".png"})
    => C24_SiblingsKeepTheirResults

\* C25: combine_json_responses leaves its input unchanged: the step that
\* merges the per-chunk objects leaves every object of the responses list as
\* it was, and merging the list once more gives the same result
C25_CombineLeavesInputUnchanged ==
    [][(pc = "returned" /\ pc' = "stored") =>
         /\ all_responses' = all_responses
         /\ Len(all_responses) > 1 =>
              CombineJsonResponses(all_responses').combined
                = CombineJsonResponses(all_responses).combined]_vars

\* the same for documents none of whose chunks after the first repeats a
\* key that an earlier chunk introduced with an array value
CombineLeavesInputUnchangedWithoutSharedArrays ==
    [][(/\ pc = "returned" /\ pc' = "stored"
        /\ \A i, j \in DOMAIN all_responses :
             (i < j /\ IsDict(all_responses[i]) /\ IsDict(all_responses[j])) =>
               \A k \in DOMAIN all_responses[i].dict \cap DOMAIN all_responses[j].dict :
                  ~all_responses[i].dict[k].isList)
         => all_responses' = all_responses]_vars

\* C26: the answer stored by the image extractor is an object, for every
\* number of chunks, a single chunk included
C26_StoredAnswerIsObject ==
    pc = "stored" => IsDict(stored[1].Body.answer)

\* the same for documents of more than one chunk
StoredAnswerIsObjectWhenMerged ==
    (pc = "stored" /\ NChunks > 1) => IsDict(stored[1].Body.answer)

\* a round of truncate_document's loop
TruncRound == trunc.pc = "loop" /\ trunc'.pc \in {"loop", "return"}

\* the two slice bounds of multiplier number k lie within the document
CutWithinDocument(k) ==
    LET cut == CutWords(trunc.split_parameter, k)
    IN  /\ 0 <= trunc.mid_point - cut
        /\ trunc.mid_point + cut <= Len(trunc.doc_words)

\* C27: in truncate_document the cut never reaches past either end of the
\* document: in every round of the loop mid - cut and mid + cut lie within
\* 0..len(words), and the result of a round is never longer than the result
\* of the round before it (a smaller multiplier)
C27_CutStaysWithinDocument ==
    [][TruncRound =>
         /\ CutWithinDocument(trunc.k)
         /\ trunc.k > 0 => TextLen(trunc'.truncated_doc) <= TextLen(trunc.truncated_doc)]_vars

\* the same monotony for the rounds whose cut, and the cut before it, lie
\* within the document
ResultShrinksWhileCutWithinDocument ==
    [][(TruncRound /\ trunc.k > 0 /\ CutWithinDocument(trunc.k) /\ CutWithinDocument(trunc.k - 1))
         => TextLen(trunc'.truncated_doc) <= TextLen(trunc.truncated_doc)]_vars

\* C28: parse_json_string is a round trip on well-formed answers: parsing
\* "<json>" + serialize(J) + "</json>", with or without a thinking block in
\* front, returns J
C28_ParseRoundTrip ==
    roundtrip.pc = "parsed" =>
        /\ ~roundtrip.raised
        /\ roundtrip.parsed = Loaded(roundtrip.J)

\* the kinds of value of an answer
KindsOf(J) == {J[k].kind : k \in DOMAIN J}

\* the same for answers of numbers, strings and arrays
ParseRoundTripOnPythonLiterals ==
    (roundtrip.pc = "parsed" /\ KindsOf(roundtrip.J) \subseteq {"number", "string", "array"})
      => /\ ~roundtrip.raised
         /\ roundtrip.parsed = Loaded(roundtrip.J)

\* the same with objects inside, unless the answer ends with one
ParseRoundTripOnInnerObjects ==
    (/\ roundtrip.pc = "parsed"
     /\ KindsOf(roundtrip.J) \subseteq {"number", "string", "array", "object"}
     /\ roundtrip.J # << >>
     /\ roundtrip.J[IF "total" \in DOMAIN roundtrip.J THEN "total" ELSE "pages"].kind # "object")
      => /\ ~roundtrip.raised
         /\ roundtrip.parsed = Loaded(roundtrip.J)

\* the text extractor has built its user message
MessageBuilt == extract.pc \in {"converse", "parse", "store", "done"}

\* text t holds text d as it is
HoldsVerbatim(t, d) ==
    \E i \in 1..(Len(t) - Len(d) + 1) : SubSeq(t, i, i + Len(d) - 1) = d

\* C29: the text extractor places the document text verbatim in the user
\* message: a placeholder that occurs inside the document is not
\* substituted, so the message holds the document as it is, whatever the
\* attributes, instructions and few-shots of the request
C29_DocumentVerbatimInMessage ==
    MessageBuilt => HoldsVerbatim(extract.prompt_template, extract.document)

\* the same for documents that hold no placeholder of a later variable
DocumentWithoutPlaceholdersVerbatim ==
    (MessageBuilt /\ extract.document \in {<< "invoice", "total 3" >>, << "{document}", "invoice" >>})
      => HoldsVerbatim(extract.prompt_template, extract.document)

\* a filling that replaces every placeholder of the template in one pass
RECURSIVE SubstituteAtOnce(_, _)
SubstituteAtOnce(template, variables) ==
    IF template = << >> THEN << >>
    ELSE (IF \E i \in DOMAIN variables : variables[i].name = Head(template)
            THEN variables[CHOOSE i \in DOMAIN variables : variables[i].name = Head(template)].value
            ELSE << Head(template) >>)
         \o SubstituteAtOnce(Tail(template), variables)

\* the message differs from the one-pass filling exactly when the document
\* holds the placeholder of a variable that is filled after it
MessageIsOnePassFillingUnlessDocumentHoldsPlaceholder ==
    MessageBuilt =>
      LET variables == PromptVariables(extract.document, extract.attributes_str,
                                       extract.instructions, extract.few_shots)
          once == SubstituteAtOnce(
                     LoadPromptTemplate(Len(extract.few_shots), extract.instructions), variables)
          later == {variables[i].name : i \in 2..Len(variables)}
      IN  /\ HoldsVerbatim(once, extract.document)
          /\ (extract.prompt_template = once)
               <=> (\A i \in DOMAIN extract.document : extract.document[i] \notin later)

\* C30: whatever the order in which the uploads end, upload_all_files_async
\* returns a list as long as docs whose entry i is the key of docs[i], and
\* the progress callback is called once per upload with completed = 1, 2,
\* ..., len(docs) in that order
C30_UploadKeysInDocumentOrder ==
    /\ upload.pc # "idle" =>
         upload.progress = [j \in 1..upload.completed |->
                               [completed |-> j, total |-> Len(upload.stub)]]
    /\ upload.pc = "returned" =>
         /\ Len(upload.file_keys) = Len(upload.stub)
         /\ \A i \in DOMAIN upload.stub : upload.file_keys[i] = upload.stub[i].key
         /\ Len(upload.progress) = Len(upload.stub)

C30_Witness ==
    /\ upload.pc = "returned"
    /\ upload.finished = << 3, 1, 2 >>
    /\ upload.file_keys = << << "originals/", "a.pdf" >>, << "originals/", "b.pdf" >>,
                             << "originals/", "c.png" >> >>
    /\ Len(upload.progress) = 3

====
